---- MODULE Spec2Model ----
(***************************************************************************)
(* Public speaking evaluation: the nine metric scorers, the age-weighted   *)
(* MetricsEvaluator and the age-tier presenters of src/Logic.              *)
(*                                                                         *)
(* The program is a stateless service: a scorer (or the evaluator, or a    *)
(* presenter) is built for a student age, and every call runs it on the    *)
(* call's inputs and returns a result.  The state of the model is the age  *)
(* and the last call: the operation, its inputs and what it returned.      *)
(*                                                                         *)
(* Numbers.  The code computes in binary floating point, and so does the   *)
(* model wherever a float is divided, multiplied by a decimal constant or  *)
(* added up before int() or round() is taken (section Binary floating      *)
(* point).  Inputs and reported numbers are integers in a unit:            *)
(*   confidences, tolerances, weights           hundredths                 *)
(*   ratios reported with round(x, 3)           thousandths                *)
(*   times and durations                        seconds                    *)
(*   durations given to the presenters          hundredths of a second     *)
(*   loudness                                   dB                         *)
(*   pitch deviation                            Hz                         *)
(*   energy dropoff and consistency             eighths                    *)
(*   wpm, overall score                         tenths                     *)
(* A quantity of n units is the float nearest to n / unit.  Where every    *)
(* intermediate value of the code is an integer, a half or an eighth, or   *)
(* the single quotient of two integers, the float is exact enough for      *)
(* int() and the comparisons, and the model computes on the rational       *)
(* (IntTrunc).                                                             *)
(***************************************************************************)
EXTENDS Integers, Sequences, FiniteSets, TLC

VARIABLES
    op,              \* the operation of the last call ("none" before any call)
    student_age,     \* the age the scorer / evaluator / presenter was built with
    words,           \* argument words: list of {word, start, end, confidence}
    total_duration,  \* argument total_duration (seconds)
    full_text,       \* argument full_text (list of characters)
    segments,        \* argument segments (only its length is read)
    audio_features,  \* argument audio_features (AudioFeatures or None)
    evaluation,      \* argument raw_evaluation of transform_for_age, argument
                     \* results of generate_improvement_suggestions
    called,          \* the scorers whose evaluate() ran during the call
    result,          \* the value returned by the call
    previous,        \* what the same call returned just before, if it was repeated
    metric_weights,  \* the METRIC_WEIGHTS table the configuration module holds
    extraction,      \* what the audio library did during extract_features
    max_suggestions, \* argument max_suggestions of generate_improvement_suggestions
    badge_call,      \* arguments scores, age_group, duration of get_badges_for_scores
    jobs,            \* the job table of the API server: job id -> job record
    tasks,           \* the background task of each job: arguments and position
    writer,          \* the job id of the task that took the last step, 0 if
                     \* an endpoint took it
    response         \* the response of the last step, if an endpoint took it

vars == <<op, student_age, words, total_duration, full_text, segments,
          audio_features, evaluation, called, result, previous,
          metric_weights, extraction, max_suggestions, badge_call,
          jobs, tasks, writer, response>>

\* the state of the scorers, the evaluator and the presenters
evaluator_vars == <<op, student_age, words, total_duration, full_text,
                    segments, audio_features, evaluation, called, result,
                    previous, metric_weights, extraction, max_suggestions,
                    badge_call>>

\* the state of the API server
api_vars == <<jobs, tasks, writer, response>>

----------------------------------------------------------------------------
(* Bounds of the model *)

\* largest max_suggestions given to generate_improvement_suggestions
MaxSuggestions == 6
\* ages run from MinStudentAge - AgeMargin to MaxStudentAge + AgeMargin
AgeMargin == 1
\* longest word list given to the clarity scorer
MaxClarityWords == 3
\* length of the word lists given to the clarity scorer that hold more
\* low-confidence words than it reports
LowWordRun == 6
\* largest word count and duration (seconds) given to the pace scorer
MaxPaceWords == 13
MaxDuration == 10
\* longest word list with freely chosen silences given to the pause scorer,
\* and the length of the lists that hold a run of long pauses
MaxPauseWords == 4
MaxPauseRun == 5
\* longest word list given to the filler scorer
MaxFillerWords == 4
\* length of the longest list given to the filler scorer that holds a run of
\* fillers
MaxFillerRun == 10
\* longest freely chosen word list given to the repetition scorer, and the
\* length of the longest list that repeats a short pattern
MaxRepetitionWords == 5
MaxCycleLen == 11
\* filler characters put before, between and after a transcript's markers
PadLead == 196
PadMid == 101
PadTail == 193
\* loudness runs from -MaxQuietDb dB to MaxLoudDb dB
MaxQuietDb == 62
MaxLoudDb == 2
\* pitch deviation runs to PitchStep * MaxPitchSteps Hz in steps of PitchStep
MaxPitchSteps == 42
\* largest energy dropoff and consistency (eighths)
MaxDropoff == 10
MaxConsistency == 3

----------------------------------------------------------------------------
(* Arithmetic helpers *)

Max(a, b) == IF a >= b THEN a ELSE b
Min(a, b) == IF a <= b THEN a ELSE b

\* Python int(num/den), den > 0: truncation toward zero
IntTrunc(num, den) ==
    IF num >= 0 THEN num \div den ELSE -((-num) \div den)

RECURSIVE SumSeq(_)
SumSeq(s) == IF s = <<>> THEN 0 ELSE Head(s) + SumSeq(Tail(s))

\* s[:n]
Take(s, n) == IF Len(s) <= n THEN s ELSE SubSeq(s, 1, n)

\* Python's None
None == [is_none |-> TRUE]

\* a feedback string; an f-string is kept as its template and its argument
Fb(text) == [text |-> text, args |-> <<>>]
FbN(text, n) == [text |-> text, args |-> <<n>>]

----------------------------------------------------------------------------
(***************************************************************************)
(* Binary floating point.  The scorers compute in Python floats (IEEE 754  *)
(* binary64, round to nearest, ties to even).  A float is modelled by its  *)
(* exact value s * m * 2^e: s is 1 or -1, m is 0 or a natural number of    *)
(* exactly 53 bits, kept as a list of base-2^14 digits (lowest first, no   *)
(* leading zero digit), because a 53-bit number does not fit an integer of *)
(* the model checker.  Subnormal numbers and infinities do not occur in    *)
(* the scores; NaN occurs only as the pitch of an unvoiced frame.  A       *)
(* number of single precision (binary32, the samples librosa loads) is the *)
(* float of the same value, its significand ending in 29 zero bits.        *)
(***************************************************************************)

\* the base of the digits of a large natural number
BigBase == 16384
BigBits == 14

RECURSIVE BigNorm(_)
BigNorm(a) ==
    IF a = <<>> THEN a
    ELSE IF a[Len(a)] = 0 THEN BigNorm(SubSeq(a, 1, Len(a) - 1))
    ELSE a

RECURSIVE BigFromInt(_)
BigFromInt(n) ==
    IF n = 0 THEN <<>> ELSE <<n % BigBase>> \o BigFromInt(n \div BigBase)

RECURSIVE BigToInt(_)
BigToInt(a) ==
    IF a = <<>> THEN 0 ELSE a[1] + BigBase * BigToInt(Tail(a))

RECURSIVE BigAddCarry(_, _, _)
BigAddCarry(a, b, carry) ==
    IF a = <<>> /\ b = <<>> THEN (IF carry = 0 THEN <<>> ELSE <<carry>>)
    ELSE LET x == IF a = <<>> THEN 0 ELSE a[1]
             y == IF b = <<>> THEN 0 ELSE b[1]
             t == x + y + carry
         IN  <<t % BigBase>> \o
             BigAddCarry(IF a = <<>> THEN a ELSE Tail(a),
                         IF b = <<>> THEN b ELSE Tail(b), t \div BigBase)

BigAdd(a, b) == BigAddCarry(a, b, 0)

\* a - b - borrow for a >= b + borrow, digits not yet normalised
RECURSIVE BigSubBorrow(_, _, _)
BigSubBorrow(a, b, borrow) ==
    IF a = <<>> THEN <<>>
    ELSE LET y == IF b = <<>> THEN 0 ELSE b[1]
             t == a[1] - y - borrow
         IN  <<t % BigBase>> \o
             BigSubBorrow(Tail(a), IF b = <<>> THEN b ELSE Tail(b),
                          IF t < 0 THEN 1 ELSE 0)

BigSub(a, b) == BigNorm(BigSubBorrow(a, b, 0))

\* -1, 0 or 1 as a < b, a = b or a > b
RECURSIVE BigCmpFrom(_, _, _)
BigCmpFrom(a, b, i) ==
    IF i = 0 THEN 0
    ELSE IF a[i] < b[i] THEN -1
    ELSE IF a[i] > b[i] THEN 1
    ELSE BigCmpFrom(a, b, i - 1)

BigCmp(a, b) ==
    IF Len(a) < Len(b) THEN -1
    ELSE IF Len(a) > Len(b) THEN 1
    ELSE BigCmpFrom(a, b, Len(a))

\* a * k + carry for 0 <= k <= 2^16
RECURSIVE BigMulSmallCarry(_, _, _)
BigMulSmallCarry(a, k, carry) ==
    IF a = <<>> THEN BigFromInt(carry)
    ELSE LET t == a[1] * k + carry
         IN  <<t % BigBase>> \o BigMulSmallCarry(Tail(a), k, t \div BigBase)

BigMulSmall(a, k) == BigNorm(BigMulSmallCarry(a, k, 0))

\* a * BigBase^n
RECURSIVE BigShiftDigits(_, _)
BigShiftDigits(a, n) ==
    IF a = <<>> \/ n = 0 THEN a ELSE <<0>> \o BigShiftDigits(a, n - 1)

RECURSIVE BigMul(_, _)
BigMul(a, b) ==
    IF a = <<>> \/ b = <<>> THEN <<>>
    ELSE IF b[1] = 0 THEN BigShiftDigits(BigMul(a, Tail(b)), 1)
    ELSE IF a[1] = 0 THEN BigShiftDigits(BigMul(Tail(a), b), 1)
    ELSE IF Len(b) = 1 THEN BigMulSmall(a, b[1])
    ELSE BigAdd(BigMulSmall(a, b[1]), BigShiftDigits(BigMul(a, Tail(b)), 1))

\* quotient and remainder of a by d, 0 < d <= 2^16: a loop over the digits of
\* a from the highest down; st holds the quotient digits found, the
\* remainder and the number of digits left
RECURSIVE BigDivSmallLoop(_, _, _)
BigDivSmallLoop(a, d, st) ==
    IF st.i = 0 THEN [q |-> BigNorm(st.q), r |-> st.r]
    ELSE BigDivSmallLoop(a, d,
             [q |-> <<(st.r * BigBase + a[st.i]) \div d>> \o st.q,
              r |-> (st.r * BigBase + a[st.i]) % d,
              i |-> st.i - 1])

BigDivSmall(a, d) == BigDivSmallLoop(a, d, [q |-> <<>>, r |-> 0, i |-> Len(a)])

\* a * 2^n
BigShl(a, n) ==
    IF n = 0 THEN a
    ELSE BigShiftDigits(BigMulSmall(a, 2 ^ (n % BigBits)), n \div BigBits)

\* floor(a / 2^n)
BigShr(a, n) ==
    LET k == n \div BigBits
    IN  IF k >= Len(a) THEN <<>>
        ELSE BigDivSmall(SubSeq(a, k + 1, Len(a)), 2 ^ (n % BigBits)).q

\* the number of bits of n, 0 <= n < 2^16
IntBitLen(n) ==
    IF n < 256
    THEN IF n < 16 THEN (IF n < 4 THEN (IF n < 2 THEN n ELSE 2)
                         ELSE IF n < 8 THEN 3 ELSE 4)
         ELSE (IF n < 64 THEN (IF n < 32 THEN 5 ELSE 6)
               ELSE IF n < 128 THEN 7 ELSE 8)
    ELSE IF n < 4096 THEN (IF n < 1024 THEN (IF n < 512 THEN 9 ELSE 10)
                           ELSE IF n < 2048 THEN 11 ELSE 12)
         ELSE (IF n < 16384 THEN (IF n < 8192 THEN 13 ELSE 14)
               ELSE IF n < 32768 THEN 15 ELSE 16)

BigBitLen(a) ==
    IF a = <<>> THEN 0 ELSE BigBits * (Len(a) - 1) + IntBitLen(a[Len(a)])

\* quotient and remainder of a by b, b > 0: long division in base BigBase,
\* each quotient digit estimated from the leading digits and corrected
RECURSIVE BigDigitFit(_, _, _)
BigDigitFit(rem, b, guess) ==
    IF BigCmp(BigMulSmall(b, guess), rem) > 0
    THEN BigDigitFit(rem, b, guess - 1) ELSE guess

\* the estimate of the next quotient digit from the leading digits of cur
BigDigitGuess(cur, b) ==
    LET n == Len(b)
        top == (IF Len(cur) > n THEN cur[n + 1] * BigBase ELSE 0)
               + (IF Len(cur) >= n THEN cur[n] ELSE 0)
    IN  IF top \div b[n] > BigBase - 1 THEN BigBase - 1 ELSE top \div b[n]

\* one step of the long division: cur is the remainder with the next digit
\* of a below it; a cur less than b gives the digit 0
BigDivPut(b, st, cur, digit) ==
    [q |-> <<digit>> \o st.q,
     r |-> BigSub(cur, BigMulSmall(b, digit)),
     i |-> st.i - 1]

BigDivTake(b, st, cur) ==
    BigDivPut(b, st, cur,
              IF BigCmp(cur, b) < 0 THEN 0
              ELSE BigDigitFit(cur, b, BigDigitGuess(cur, b)))

RECURSIVE BigDivLoop(_, _, _)
BigDivLoop(a, b, st) ==
    IF st.i = 0 THEN st
    ELSE BigDivLoop(a, b, BigDivTake(b, st, BigNorm(<<a[st.i]>> \o st.r)))

BigDivShiftBack(st, shift) == [q |-> BigNorm(st.q), r |-> BigShr(st.r, shift)]

\* the leading digits of an, one fewer than bn has, are the first remainder
BigDivLongFrom(an, bn, shift, i) ==
    BigDivShiftBack(
        BigDivLoop(an, bn, [q |-> <<>>, r |-> SubSeq(an, i + 1, Len(an)), i |-> i]),
        shift)

\* the divisor is shifted until its leading digit has its highest bit set
BigDivLong(an, bn, shift) ==
    BigDivLongFrom(an, bn, shift, Max(0, Len(an) - Len(bn) + 1))

BigDivOneDigit(small) == [q |-> small.q, r |-> BigFromInt(small.r)]

BigDivMod(a, b) ==
    IF Len(b) = 1 THEN BigDivOneDigit(BigDivSmall(a, b[1]))
    ELSE BigDivLong(BigShl(a, BigBits - IntBitLen(b[Len(b)])),
                    BigShl(b, BigBits - IntBitLen(b[Len(b)])),
                    BigBits - IntBitLen(b[Len(b)]))

\* digit i of a, 0 beyond its ends
BigDigit(a, i) == IF i >= 1 /\ i <= Len(a) THEN a[i] ELSE 0

\* the number of zero digits at the low end of a, a # <<>>
RECURSIVE BigLowZeros(_)
BigLowZeros(a) == IF a[1] # 0 THEN 0 ELSE 1 + BigLowZeros(Tail(a))

\* the natural number nearest to (n + f) / 2^drop, drop > 0, where f is 0 if
\* ~sticky and some fraction strictly between 0 and 1 if sticky; an exact tie
\* goes to the even number.  One division finds the quotient and the bits
\* below it: the highest of them says whether the rest is a half or more.
BigRoundShr(n, drop, sticky) ==
    LET k == (drop - 1) \div BigBits
        b == (drop - 1) % BigBits
        res == BigDivSmall(SubSeq(n, k + 1, Len(n)), 2 ^ (b + 1))
        rest == \/ sticky
                \/ res.r % (2 ^ b) # 0
                \/ \E i \in 1..k : n[i] # 0
        odd == res.q # <<>> /\ res.q[1] % 2 = 1
    IN  IF k >= Len(n) THEN <<>>
        ELSE IF res.r >= 2 ^ b /\ (rest \/ odd) THEN BigAdd(res.q, <<1>>)
        ELSE res.q

\* the number of bits of the significand of a float
FloatBits == 53

FloatZero == [s |-> 1, m |-> <<>>, e |-> 0]

\* digit i of n * 2^(BigBits * a + b) and of n \div 2^(BigBits * a + b),
\* 0 <= b < BigBits: each is made of two neighbouring digits of n
BigDigitUp(n, a, b, i) ==
    (BigDigit(n, i - a) % (2 ^ (BigBits - b))) * (2 ^ b)
    + BigDigit(n, i - a - 1) \div (2 ^ (BigBits - b))

BigDigitDown(n, a, b, i) ==
    BigDigit(n, i + a) \div (2 ^ b)
    + (BigDigit(n, i + a + 1) % (2 ^ b)) * (2 ^ (BigBits - b))

\* bit number k (from 0) of n is set; some bit below it is set
BigBit(n, k) == (n[(k \div BigBits) + 1] \div (2 ^ (k % BigBits))) % 2 = 1

BigBitsBelow(n, k) ==
    \/ n[(k \div BigBits) + 1] % (2 ^ (k % BigBits)) # 0
    \/ \E j \in 1..(k \div BigBits) : n[j] # 0

\* the significand after q, a significand of FloatBits bits
FloatNextUp(s, t, e) ==
    IF t[4] = 2 ^ (FloatBits - 3 * BigBits)
    THEN [s |-> s, m |-> <<0, 0, 0, 2 ^ (FloatBits - 3 * BigBits - 1)>>, e |-> e + 1]
    ELSE [s |-> s, m |-> t, e |-> e]

\* q with what was dropped below it: half says that it is a half or more,
\* rest that it is not exactly a half.  Ties go to the even significand.
FloatNearest(s, q, e, half, rest) ==
    IF half /\ (rest \/ q[1] % 2 = 1) THEN FloatNextUp(s, BigAdd(q, <<1>>), e)
    ELSE [s |-> s, m |-> q, e |-> e]

\* n has len <= FloatBits bits: n * 2^up
FloatRoundUp(s, n, e, up) ==
    [s |-> s,
     m |-> <<BigDigitUp(n, up \div BigBits, up % BigBits, 1),
             BigDigitUp(n, up \div BigBits, up % BigBits, 2),
             BigDigitUp(n, up \div BigBits, up % BigBits, 3),
             BigDigitUp(n, up \div BigBits, up % BigBits, 4)>>,
     e |-> e - up]

\* n has len > FloatBits bits: n \div 2^drop, rounded by the dropped bits
FloatRoundDown(s, n, e, sticky, drop) ==
    FloatNearest(s,
                 <<BigDigitDown(n, drop \div BigBits, drop % BigBits, 1),
                   BigDigitDown(n, drop \div BigBits, drop % BigBits, 2),
                   BigDigitDown(n, drop \div BigBits, drop % BigBits, 3),
                   BigDigitDown(n, drop \div BigBits, drop % BigBits, 4)>>,
                 e + drop, BigBit(n, drop - 1),
                 sticky \/ BigBitsBelow(n, drop - 1))

FloatRoundLen(s, n, e, sticky, len) ==
    IF len <= FloatBits THEN FloatRoundUp(s, n, e, FloatBits - len)
    ELSE FloatRoundDown(s, n, e, sticky, len - FloatBits)

\* the float nearest to s * (n + f) * 2^e, where n is a natural number, f is
\* 0 if ~sticky and some fraction strictly between 0 and 1 if sticky; with
\* sticky, n must have more than FloatBits + 1 bits.  A significand of
\* FloatBits bits has four digits.
FloatRound(s, n, e, sticky) ==
    IF n = <<>> THEN FloatZero ELSE FloatRoundLen(s, n, e, sticky, BigBitLen(n))

\* float(n) of an integer n; the small ones are kept in a table
FloatOfInt(n) ==
    FloatRound(IF n < 0 THEN -1 ELSE 1, BigFromInt(IF n < 0 THEN -n ELSE n), 0, FALSE)

\* the size of the tables below
FloatTableInts == 300
FloatTableHundredths == 200

FloatSmallInts == [n \in 0..FloatTableInts |-> FloatOfInt(n)]

FloatFromInt(n) ==
    IF n \in 0..FloatTableInts THEN FloatSmallInts[n] ELSE FloatOfInt(n)

\* the float written as the decimal n / d (d a power of ten), and the float
\* n / d of two integers, 0 < d <= 2^16: both are the float nearest to the
\* quotient
FloatOfDivision(s, res, e) == FloatRound(s, res.q, e, res.r # 0)

FloatQuotient(n, d) ==
    FloatOfDivision(IF n < 0 THEN -1 ELSE 1,
                    BigDivSmall(BigShl(BigFromInt(IF n < 0 THEN -n ELSE n),
                                       5 * BigBits), d),
                    -(5 * BigBits))

\* the floats 0.00, 0.01 .. 2.00 are kept in a table
FloatHundredths == [n \in 0..FloatTableHundredths |-> FloatQuotient(n, 100)]

FloatRatio(n, d) ==
    IF d = 100 /\ n \in 0..FloatTableHundredths THEN FloatHundredths[n]
    ELSE FloatQuotient(n, d)

FloatNeg(x) == [x EXCEPT !.s = -x.s]

\* np.nan, and np.isnan(x)
FloatNaN == [s |-> 0, m |-> <<>>, e |-> 0]
FloatIsNaN(x) == x.s = 0

\* the number of bits of the significand of a number of single precision
FloatSingleBits == 24

\* the number of single precision nearest to the float x, ties to even.  An
\* operation on numbers of single precision gives the exact result rounded
\* once to 24 bits; rounding it to 53 bits first and then to 24 gives the
\* same number for +, -, *, / and sqrt, since 53 >= 2 * 24 + 2.
\* The 29 bits dropped are the two low digits and the lowest bit of the
\* third: q is the rest, half the highest bit dropped, rest whether a lower
\* one is set.
FloatSinglePut(s, q, e) ==
    IF q = 2 ^ FloatSingleBits
    THEN [s |-> s, m |-> <<0, 0, 0, 2 ^ (FloatBits - 3 * BigBits - 1)>>, e |-> e + 1]
    ELSE [s |-> s,
          m |-> <<0, 0, (q % (2 ^ (BigBits - 1))) * 2, q \div (2 ^ (BigBits - 1))>>,
          e |-> e]

FloatSingleNearest(s, q, e, half, rest) ==
    FloatSinglePut(s, IF half /\ (rest \/ q % 2 = 1) THEN q + 1 ELSE q, e)

FloatSingle(x) ==
    IF x.m = <<>> THEN x
    ELSE FloatSingleNearest(x.s, (x.m[3] \div 2) + x.m[4] * (2 ^ (BigBits - 1)), x.e,
                            x.m[3] % 2 = 1, x.m[1] # 0 \/ x.m[2] # 0)

\* the product of two significands of four digits, column by column
FloatMul(x, y) ==
    LET a == x.m
        b == y.m
        t1 == a[1] * b[1]
        t2 == a[1] * b[2] + a[2] * b[1] + t1 \div BigBase
        t3 == a[1] * b[3] + a[2] * b[2] + a[3] * b[1] + t2 \div BigBase
        t4 == a[1] * b[4] + a[2] * b[3] + a[3] * b[2] + a[4] * b[1] + t3 \div BigBase
        t5 == a[2] * b[4] + a[3] * b[3] + a[4] * b[2] + t4 \div BigBase
        t6 == a[3] * b[4] + a[4] * b[3] + t5 \div BigBase
        t7 == a[4] * b[4] + t6 \div BigBase
    IN  IF a = <<>> \/ b = <<>> THEN FloatZero
        ELSE FloatRound(x.s * y.s,
                        <<t1 % BigBase, t2 % BigBase, t3 % BigBase, t4 % BigBase,
                          t5 % BigBase, t6 % BigBase, t7 % BigBase, t7 \div BigBase>>,
                        x.e + y.e, FALSE)

\* x / y, y # 0: the zero digits at the low end of the divisor go into the
\* exponent
FloatOfLongDivision(s, res, e) == FloatRound(s, res.q, e, res.r # <<>>)

FloatDivFrom(x, y, z) ==
    FloatOfLongDivision(x.s * y.s,
                        BigDivMod(BigShiftDigits(x.m, 4), SubSeq(y.m, z + 1, Len(y.m))),
                        x.e - (y.e + z * BigBits) - 4 * BigBits)

FloatDiv(x, y) ==
    IF x.m = <<>> THEN FloatZero ELSE FloatDivFrom(x, y, BigLowZeros(y.m))

\* sx * a * 2^e + sy * b * 2^e; c is BigCmp(a, b)
FloatAddAligned(sx, a, sy, b, e, c) ==
    IF sx # sy /\ c = 0 THEN FloatZero
    ELSE FloatRound(IF c >= 0 THEN sx ELSE sy,
                    IF sx = sy THEN BigAdd(a, b)
                    ELSE IF c > 0 THEN BigSub(a, b) ELSE BigSub(b, a),
                    e, FALSE)

\* x + y with both significands brought to the exponent e, the lower one
FloatAddAt(x, a, y, b, e) == FloatAddAligned(x.s, a, y.s, b, e, BigCmp(a, b))

\* a float of the same sign and more than FloatBits + 1 binary places below the
\* other changes nothing
FloatAdd(x, y) ==
    IF x.m = <<>> THEN y
    ELSE IF y.m = <<>> THEN x
    ELSE IF x.s = y.s /\ x.e - y.e > FloatBits + 1 THEN x
    ELSE IF x.s = y.s /\ y.e - x.e > FloatBits + 1 THEN y
    ELSE FloatAddAt(x, BigShl(x.m, x.e - Min(x.e, y.e)),
                    y, BigShl(y.m, y.e - Min(x.e, y.e)), Min(x.e, y.e))

FloatSub(x, y) == FloatAdd(x, FloatNeg(y))

\* floor(sqrt(n)), n > 0, by Newton's iteration from a number x >= sqrt(n):
\* st holds x and the next number y, and the numbers fall until y >= x
BigSqrtStep(n, x) == BigShr(BigAdd(x, BigDivMod(n, x).q), 1)

RECURSIVE BigSqrtLoop(_, _)
BigSqrtLoop(n, st) ==
    IF BigCmp(st.y, st.x) >= 0 THEN st.x
    ELSE BigSqrtLoop(n, [x |-> st.y, y |-> BigSqrtStep(n, st.y)])

BigSqrtFrom(n, x) == BigSqrtLoop(n, [x |-> x, y |-> BigSqrtStep(n, x)])

BigSqrt(n) == BigSqrtFrom(n, BigShl(<<1>>, (BigBitLen(n) + 1) \div 2))

\* sqrt(x), x >= 0: the float nearest to the root.  The significand is
\* shifted up by k bits, k making the exponent even and the root a number
\* of more than FloatBits + 1 bits; the root is exact iff its square gives
\* the shifted significand back.
FloatOfRoot(n, root, e) == FloatRound(1, root, e, BigCmp(BigMul(root, root), n) # 0)

FloatSqrtOf(n, e) == FloatOfRoot(n, BigSqrt(n), e \div 2)

FloatSqrtShifted(x, k) == FloatSqrtOf(BigShl(x.m, k), x.e - k)

FloatSqrt(x) ==
    IF x.m = <<>> THEN FloatZero
    ELSE FloatSqrtShifted(x, IF (x.e - (FloatBits + 4)) % 2 = 0
                             THEN FloatBits + 4 ELSE FloatBits + 5)

\* -1, 0 or 1 as x < y, x = y or x > y: by the sign, then by the exponent
\* (the significands have the same number of bits), then by the significand
FloatCmp(x, y) ==
    IF x.m = <<>> THEN (IF y.m = <<>> THEN 0 ELSE -y.s)
    ELSE IF y.m = <<>> THEN x.s
    ELSE IF x.s # y.s THEN x.s
    ELSE IF x.e # y.e THEN (IF x.e > y.e THEN x.s ELSE -x.s)
    ELSE x.s * BigCmp(x.m, y.m)

FloatLess(x, y) == FloatCmp(x, y) < 0
FloatLessEq(x, y) == FloatCmp(x, y) <= 0

\* int(x): the integer part, toward zero
FloatInt(x) ==
    x.s * BigToInt(IF x.e >= 0 THEN BigShl(x.m, x.e) ELSE BigShr(x.m, -x.e))

\* round(x, k) in units of 10^-k, 0 <= k <= 4: the integer nearest to
\* x * 10^k, an exact tie going to the even one
FloatRoundDigits(x, k) ==
    LET n == BigMulSmall(x.m, 10 ^ k) IN
    IF x.e >= 0 THEN x.s * BigToInt(BigShl(n, x.e))
    ELSE x.s * BigToInt(BigRoundShr(n, -x.e, FALSE))

----------------------------------------------------------------------------
(* numpy.  dtype is the type of the numbers of an array: "float64", or    *)
(* "float32" for what librosa computes from the samples it loaded.         *)

\* the result of an operation in the type of the array
np_round(dtype, x) == IF dtype = "float32" THEN FloatSingle(x) ELSE x
np_add(dtype, x, y) == np_round(dtype, FloatAdd(x, y))

\* res += a[i] for i = lo .. hi; st holds res and i
RECURSIVE FloatSumLoop(_, _, _, _)
FloatSumLoop(dtype, a, hi, st) ==
    IF st.i > hi THEN st.res
    ELSE FloatSumLoop(dtype, a, hi,
                      [res |-> np_add(dtype, st.res, a[st.i]), i |-> st.i + 1])

FloatSumFrom(dtype, a, lo, hi, res) ==
    FloatSumLoop(dtype, a, hi, [res |-> res, i |-> lo])

\* <<r[j] + a[i + j - 1], .., r[8] + a[i + 7]>>
RECURSIVE EightAdd(_, _, _, _, _)
EightAdd(dtype, a, r, i, j) ==
    IF j > 8 THEN <<>>
    ELSE <<np_add(dtype, r[j], a[i + j - 1])>> \o EightAdd(dtype, a, r, i, j + 1)

\* r[j] += a[i + j] for the blocks of eight that begin at i, i + 8, ... up
\* to last; st holds r and i
RECURSIVE EightSumsLoop(_, _, _, _)
EightSumsLoop(dtype, a, last, st) ==
    IF st.i > last THEN st.r
    ELSE EightSumsLoop(dtype, a, last,
                       [r |-> EightAdd(dtype, a, st.r, st.i, 1), i |-> st.i + 8])

EightSums(dtype, a, r, i, last) == EightSumsLoop(dtype, a, last, [r |-> r, i |-> i])

\* r[lo] + .. + r[hi], added up in pairs
RECURSIVE PairwiseSum(_, _, _, _)
PairwiseSum(dtype, r, lo, hi) ==
    IF lo = hi THEN r[lo]
    ELSE np_add(dtype, PairwiseSum(dtype, r, lo, (lo + hi) \div 2),
                PairwiseSum(dtype, r, ((lo + hi) \div 2) + 1, hi))

\* np.add.reduce over a contiguous array: numpy adds fewer than eight numbers
\* one after the other, up to 128 numbers in eight running sums that it adds
\* up in pairs, and more than 128 numbers by halves
RECURSIVE np_add_reduce(_, _)
np_sum_halves(dtype, a, n, half) ==
    np_add(dtype, np_add_reduce(dtype, SubSeq(a, 1, half)),
           np_add_reduce(dtype, SubSeq(a, half + 1, n)))

np_sum_blocks(dtype, a, n, whole) ==
    FloatSumFrom(dtype, a, whole + 1, n,
                 PairwiseSum(dtype, EightSums(dtype, a, SubSeq(a, 1, 8), 9, whole), 1, 8))

np_add_reduce(dtype, a) ==
    IF Len(a) < 8 THEN FloatSumFrom(dtype, a, 1, Len(a), FloatZero)
    ELSE IF Len(a) <= 128 THEN np_sum_blocks(dtype, a, Len(a), Len(a) - (Len(a) % 8))
    ELSE np_sum_halves(dtype, a, Len(a), (Len(a) \div 2) - ((Len(a) \div 2) % 8))

\* np.sum of a list of floats
np_sum(a) == np_add_reduce("float64", a)

\* np.mean of a non-empty array: the sum divided by the count
np_mean_of(dtype, a) ==
    np_round(dtype, FloatDiv(np_add_reduce(dtype, a), FloatFromInt(Len(a))))

\* float(np.mean(a)) of a non-empty list of floats
np_mean(a) == np_mean_of("float64", a)

\* <<(a[k] - mean)^2, .., (a[Len(a)] - mean)^2>>, each difference and each
\* square a number of the array's type
np_square(dtype, x) == np_round(dtype, FloatMul(x, x))

RECURSIVE np_squared_deviations(_, _, _, _)
np_squared_deviations(dtype, a, mean, k) ==
    IF k > Len(a) THEN <<>>
    ELSE <<np_square(dtype, np_round(dtype, FloatSub(a[k], mean)))>>
         \o np_squared_deviations(dtype, a, mean, k + 1)

\* np.std of a non-empty array (ddof = 0): the root of the mean of the
\* squared deviations from the mean
np_std_about(dtype, a, mean) ==
    np_round(dtype, FloatSqrt(np_mean_of(dtype, np_squared_deviations(dtype, a, mean, 1))))

\* np.mean and np.std of the same array
np_mean_std_about(dtype, a, mean) ==
    [mean |-> mean, std |-> np_std_about(dtype, a, mean)]

np_mean_std(dtype, a) == np_mean_std_about(dtype, a, np_mean_of(dtype, a))

np_std(dtype, a) == np_mean_std(dtype, a).std

\* np.min and np.max of a non-empty array without NaN; st holds the extreme
\* so far and the index of the next number
RECURSIVE np_extreme_loop(_, _, _)
np_extreme_loop(a, sign, st) ==
    IF st.i > Len(a) THEN st.m
    ELSE np_extreme_loop(a, sign,
             [m |-> IF sign * FloatCmp(a[st.i], st.m) > 0 THEN a[st.i] ELSE st.m,
              i |-> st.i + 1])

np_min(a) == np_extreme_loop(a, -1, [m |-> a[1], i |-> 2])
np_max(a) == np_extreme_loop(a, 1, [m |-> a[1], i |-> 2])

----------------------------------------------------------------------------
(* config/age_groups.py *)

AgeGroupNames ==
    {"pre_primary", "lower_primary", "upper_primary", "middle", "secondary"}

\* tolerances in hundredths
AGE_GROUPS ==
    [pre_primary   |-> [min_age |-> 3, max_age |-> 5, wpm_range |-> <<40, 90>>,
                        filler_tolerance |-> 15, pause_tolerance |-> 30],
     lower_primary |-> [min_age |-> 6, max_age |-> 8, wpm_range |-> <<60, 110>>,
                        filler_tolerance |-> 12, pause_tolerance |-> 25],
     upper_primary |-> [min_age |-> 9, max_age |-> 10, wpm_range |-> <<80, 130>>,
                        filler_tolerance |-> 10, pause_tolerance |-> 20],
     middle        |-> [min_age |-> 11, max_age |-> 13, wpm_range |-> <<100, 150>>,
                        filler_tolerance |-> 8, pause_tolerance |-> 15],
     secondary     |-> [min_age |-> 14, max_age |-> 18, wpm_range |-> <<120, 160>>,
                        filler_tolerance |-> 5, pause_tolerance |-> 10]]

MetricKeys ==
    <<"clarity", "pace", "pause", "filler", "repetition", "structure",
      "loudness", "pitch_variation", "stamina">>

\* a table whose rows sum to 1.05, to test the properties against
METRIC_WEIGHTS_unbalanced ==
    [g \in AgeGroupNames |->
        [clarity |-> 25, pace |-> 20, pause |-> 15, filler |-> 10,
         repetition |-> 10, structure |-> 5,
         loudness |-> 15, pitch_variation |-> 5, stamina |-> 0]]

\* weights in hundredths
METRIC_WEIGHTS ==
    [pre_primary   |-> [clarity |-> 25, pace |-> 20, pause |-> 15, filler |-> 10,
                        repetition |-> 5, structure |-> 5,
                        loudness |-> 15, pitch_variation |-> 5, stamina |-> 0],
     lower_primary |-> [clarity |-> 20, pace |-> 15, pause |-> 15, filler |-> 10,
                        repetition |-> 5, structure |-> 5,
                        loudness |-> 15, pitch_variation |-> 10, stamina |-> 5],
     upper_primary |-> [clarity |-> 18, pace |-> 15, pause |-> 12, filler |-> 10,
                        repetition |-> 8, structure |-> 7,
                        loudness |-> 12, pitch_variation |-> 10, stamina |-> 8],
     middle        |-> [clarity |-> 15, pace |-> 12, pause |-> 10, filler |-> 12,
                        repetition |-> 12, structure |-> 15,
                        loudness |-> 8, pitch_variation |-> 8, stamina |-> 8],
     secondary     |-> [clarity |-> 12, pace |-> 10, pause |-> 8, filler |-> 12,
                        repetition |-> 12, structure |-> 20,
                        loudness |-> 8, pitch_variation |-> 10, stamina |-> 8]]

\* a variant with the upper limits exclusive, to test the properties against
get_detailed_age_group_exclusive(age) ==
    IF age < 5 THEN "pre_primary"
    ELSE IF age < 8 THEN "lower_primary"
    ELSE IF age < 10 THEN "upper_primary"
    ELSE IF age < 13 THEN "middle"
    ELSE "secondary"

get_detailed_age_group(age) ==
    IF age <= 5 THEN "pre_primary"
    ELSE IF age <= 8 THEN "lower_primary"
    ELSE IF age <= 10 THEN "upper_primary"
    ELSE IF age <= 13 THEN "middle"
    ELSE "secondary"

\* the four-group function kept for backward compatibility
get_age_group(age) ==
    IF age <= 5 THEN "pre_primary"
    ELSE IF age <= 10 THEN (IF age <= 8 THEN "lower_primary" ELSE "upper_primary")
    ELSE IF age <= 13 THEN "middle"
    ELSE "secondary"

\* the ages a caller may pass: the documented 3..18 and a margin around it
MinStudentAge == AGE_GROUPS["pre_primary"].min_age
MaxStudentAge == AGE_GROUPS["secondary"].max_age
Ages == (MinStudentAge - AgeMargin)..(MaxStudentAge + AgeMargin)

----------------------------------------------------------------------------
(* metrics/base.py *)

BaseMetric_determine_age_group(age) ==
    IF age <= 5 THEN "pre_primary"
    ELSE IF age <= 8 THEN "lower_primary"
    ELSE IF age <= 10 THEN "upper_primary"
    ELSE IF age <= 13 THEN "middle"
    ELSE "secondary"

\* a variant that leaves out the clamp, to test the properties against
clamp_score_unclamped(num, den) == IntTrunc(num, den)

\* clamp_score(num/den) = max(0, min(100, int(num/den)))
clamp_score(num, den) == Max(0, Min(100, IntTrunc(num, den)))

YoungGroups == {"pre_primary", "lower_primary"}

----------------------------------------------------------------------------
(* Word lists *)

Word(text, start, end, confidence) ==
    [word |-> text, start |-> start, end |-> end, confidence |-> confidence]

\* start of the i-th word when every word lasts one second and gaps[j] is
\* the silence after the j-th word
RECURSIVE StartOf(_, _)
StartOf(gaps, i) == IF i = 1 THEN 0 ELSE StartOf(gaps, i - 1) + 1 + gaps[i - 1]

\* the word list with the given texts, gaps (Len(texts) - 1 of them) and
\* confidences (hundredths)
MkWords(texts, gaps, confs) ==
    [i \in 1..Len(texts) |->
        Word(texts[i], StartOf(gaps, i), StartOf(gaps, i) + 1, confs[i])]

Seqs(S, n) == UNION {[1..k -> S] : k \in 0..n}

\* confidences a recogniser may report, in hundredths; the float 0.29 times
\* 100 is less than 29
ConfidenceLevels == {0, 25, 29, 50, 75, 100}

\* words "test" with the given confidences, one second each, one second apart
PlainWords(confs) ==
    MkWords([i \in 1..Len(confs) |-> "test"],
            [i \in 1..(Len(confs) - 1) |-> 1], confs)

----------------------------------------------------------------------------
(* config/metrics_config.py *)

\* thresholds in seconds, the confidence threshold in hundredths
METRICS_CONFIG ==
    [long_pause_threshold       |-> 2,
     excessive_pause_threshold  |-> 4,
     filler_words               |->
        {"um", "uh", "umm", "uhh", "like", "you know",
         "sort of", "kind of", "basically", "actually",
         "so", "well", "right", "okay", "yeah"},
     low_confidence_threshold   |-> 60,
     intro_markers              |->
        <<"hello", "hi", "good morning", "good afternoon",
          "today", "i will", "i am going to", "my topic",
          "let me tell you", "my name is">>,
     conclusion_markers         |->
        <<"conclusion", "finally", "in summary", "to conclude",
          "thank you", "that is all", "in closing", "to sum up",
          "the end", "that's all">>,
     min_word_length_for_repeat |-> 3,
     phrase_repeat_threshold    |-> 3]

----------------------------------------------------------------------------
(* metrics/clarity.py *)

ClarityMetric_get_feedback(age_group, score) ==
    IF score < 50 THEN
        IF age_group \in YoungGroups
        THEN <<Fb("Try speaking a bit louder and clearer!")>>
        ELSE <<Fb("Try speaking a bit louder and clearer")>>
    ELSE IF score < 70 THEN
        IF age_group \in YoungGroups
        THEN <<Fb("Good effort! Keep practicing speaking clearly!")>>
        ELSE <<Fb("Good effort! Some words were unclear, practice speaking with confidence")>>
    ELSE
        IF age_group \in YoungGroups
        THEN <<Fb("Great job! Your words were easy to understand!")>>
        ELSE <<Fb("Great clarity! Your words were easy to understand")>>

\* lines 64-72: the result for the score found
ClarityMetric_result(age_group, low_confidence_words, avg_confidence, clarity_score) ==
    [score |-> clarity_score,
     \* round(avg, 3), in thousandths
     average_confidence |-> FloatRoundDigits(avg_confidence, 3),
     low_confidence_count |-> Len(low_confidence_words),
     low_confidence_words |-> Take(low_confidence_words, 5),
     feedback |-> ClarityMetric_get_feedback(age_group, clarity_score)]

\* line 61: self.clamp_score(avg_confidence * 100)
ClarityMetric_scored(age_group, low_confidence_words, avg_confidence) ==
    ClarityMetric_result(age_group, low_confidence_words, avg_confidence,
        clamp_score(FloatInt(FloatMul(avg_confidence, FloatFromInt(100))), 1))

\* lines 51-58: the words below the confidence threshold
ClarityMetric_low_confidence_words(low) ==
    [i \in 1..Len(low) |->
        [word |-> low[i].word, confidence |-> low[i].confidence,
         timestamp |-> low[i].start]]

ClarityMetric_evaluate(age, ws) ==
    IF ws = <<>> THEN
        [score |-> 0, average_confidence |-> 0, low_confidence_count |-> 0,
         low_confidence_words |-> <<>>,
         feedback |-> <<Fb("No speech detected")>>]
    ELSE
        ClarityMetric_scored(
            BaseMetric_determine_age_group(age),
            ClarityMetric_low_confidence_words(
                SelectSeq(ws, LAMBDA w :
                    w.confidence < METRICS_CONFIG.low_confidence_threshold)),
            \* avg_confidence = float(np.mean(confidences))
            np_mean([i \in 1..Len(ws) |-> FloatRatio(ws[i].confidence, 100)]))

----------------------------------------------------------------------------
(* metrics/pace.py *)

\* lines 90-119: the text for a pace below, above or within the range
PaceMetric_feedback_text(age_group, slow, fast, int_wpm) ==
    IF slow THEN
        IF age_group \in YoungGroups
        THEN <<FbN("Try speaking a little faster! ({int(wpm)} words per minute)", int_wpm)>>
        ELSE <<FbN("Your pace is a bit slow ({int(wpm)} words/min). Try speaking a little faster", int_wpm)>>
    ELSE IF fast THEN
        IF age_group \in YoungGroups
        THEN <<FbN("Great energy! Try slowing down just a little ({int(wpm)} words per minute)", int_wpm)>>
        ELSE <<FbN("Your pace is quite fast ({int(wpm)} words/min). Take your time and slow down", int_wpm)>>
    ELSE
        IF age_group \in YoungGroups
        THEN <<FbN("Perfect speed! ({int(wpm)} words per minute)", int_wpm)>>
        ELSE <<FbN("Excellent pace! ({int(wpm)} words/min)", int_wpm)>>

\* wpm is a float: wpm < ideal_min, wpm > ideal_max, int(wpm)
PaceMetric_get_feedback(age_group, wpm, ideal_min, ideal_max) ==
    PaceMetric_feedback_text(age_group,
                             FloatLess(wpm, FloatFromInt(ideal_min)),
                             FloatLess(FloatFromInt(ideal_max), wpm),
                             FloatInt(wpm))

\* a variant that ignores the duration, to test the properties against
PaceMetric_no_speech_words_only(ws, d) == ws = <<>>

\* line 36: not words or total_duration == 0
PaceMetric_no_speech(ws, d) == ws = <<>> \/ d = 0

\* lines 59 and 63: int(ratio * 100)
PaceMetric_ratio_score(ratio) == FloatInt(FloatMul(ratio, FloatFromInt(100)))

\* lines 53-63 for the floats of the two ends of the range
PaceMetric_score_between(wpm, low, high) ==
    IF FloatLessEq(low, wpm) /\ FloatLessEq(wpm, high) THEN 100
    ELSE PaceMetric_ratio_score(
             \* ratio = wpm / ideal_min if ideal_min > 0 else 0; every range
             \* of AGE_GROUPS begins above 0
             IF FloatLess(wpm, low) THEN FloatDiv(wpm, low)
             \* ratio = ideal_max / wpm if wpm > 0 else 0
             ELSE IF FloatLess(FloatZero, wpm) THEN FloatDiv(high, wpm)
             ELSE FloatZero)

\* lines 53-63: the score before clamping, for the float wpm
PaceMetric_score(wpm, ideal_min, ideal_max) ==
    PaceMetric_score_between(wpm, FloatFromInt(ideal_min), FloatFromInt(ideal_max))

\* lines 65-77: the result for the pace found
PaceMetric_result(age_group, n, speaking_duration, wpm, ideal_min, ideal_max) ==
    [score |-> clamp_score(PaceMetric_score(wpm, ideal_min, ideal_max), 1),
     \* round(wpm, 1), in tenths
     wpm |-> FloatRoundDigits(wpm, 1),
     \* f"{ideal_min}-{ideal_max} wpm"
     ideal_range |-> <<ideal_min, ideal_max>>,
     word_count |-> n,
     \* round(speaking_duration, 2), in hundredths
     duration_minutes |-> FloatRoundDigits(speaking_duration, 2),
     feedback |-> PaceMetric_get_feedback(age_group, wpm, ideal_min, ideal_max)]

\* line 47: wpm = word_count / speaking_duration if speaking_duration > 0 else 0
PaceMetric_timed(age, n, d, speaking_duration) ==
    PaceMetric_result(BaseMetric_determine_age_group(age), n, speaking_duration,
                      IF d > 0 THEN FloatDiv(FloatFromInt(n), speaking_duration)
                      ELSE FloatZero,
                      AGE_GROUPS[get_detailed_age_group(age)].wpm_range[1],
                      AGE_GROUPS[get_detailed_age_group(age)].wpm_range[2])

PaceMetric_evaluate(age, ws, d) ==
    IF PaceMetric_no_speech(ws, d) THEN
        [score |-> 0, wpm |-> 0, ideal_range |-> <<>>,
         feedback |-> <<Fb("No speech detected")>>]
    \* line 46: speaking_duration = total_duration / 60
    ELSE PaceMetric_timed(age, Len(ws), d, FloatDiv(FloatFromInt(d), FloatFromInt(60)))

----------------------------------------------------------------------------
(* Python string operations on ASCII text *)

UpperLetters == "ABCDEFGHIJKLMNOPQRSTUVWXYZ"
LowerLetters == "abcdefghijklmnopqrstuvwxyz"

Char(s, i) == SubSeq(s, i, i)

\* upper-case letter -> lower-case letter
UpperToLower ==
    [c \in {Char(UpperLetters, i) : i \in 1..Len(UpperLetters)} |->
        Char(LowerLetters, CHOOSE i \in 1..Len(UpperLetters) : Char(UpperLetters, i) = c)]

LowerChar(c) == IF c \in DOMAIN UpperToLower THEN UpperToLower[c] ELSE c

\* str.lower(), by halves
RECURSIVE Lower(_)
Lower(s) ==
    IF Len(s) = 0 THEN ""
    ELSE IF Len(s) = 1 THEN LowerChar(s)
    ELSE Lower(SubSeq(s, 1, Len(s) \div 2)) \o
         Lower(SubSeq(s, (Len(s) \div 2) + 1, Len(s)))

\* str.strip(chars): drop leading and trailing characters that occur in chars
InChars(c, chars) == \E i \in 1..Len(chars) : Char(chars, i) = c

RECURSIVE Strip(_, _)
Strip(s, chars) ==
    IF Len(s) = 0 THEN ""
    ELSE IF InChars(Char(s, 1), chars) THEN Strip(SubSeq(s, 2, Len(s)), chars)
    ELSE IF InChars(Char(s, Len(s)), chars)
         THEN Strip(SubSeq(s, 1, Len(s) - 1), chars)
    ELSE s

\* marker in text
Contains(text, marker) ==
    \E i \in 1..(Len(text) - Len(marker) + 1) :
        SubSeq(text, i, i + Len(marker) - 1) = marker

\* w["word"].lower().strip(".,!?") for every word
WordTexts(ws) == [i \in 1..Len(ws) |-> Strip(Lower(ws[i].word), ".,!?")]

\* the number of positions of s that hold x
Count(s, x) == Cardinality({i \in 1..Len(s) : s[i] = x})

\* the distinct elements of s in order of first occurrence
FirstOccurrences(s) ==
    SelectSeq([i \in 1..Len(s) |->
                  IF \E j \in 1..(i - 1) : s[j] = s[i] THEN <<>> ELSE <<s[i]>>],
              LAMBDA e : e # <<>>)

\* Counter(s).items(): (element, count) in order of first occurrence
CounterItems(s) ==
    LET d == FirstOccurrences(s)
    IN  [i \in 1..Len(d) |-> <<d[i][1], Count(s, d[i][1])>>]

\* Counter(s).most_common(): the items by decreasing count, equal counts in
\* order of first occurrence
RECURSIVE SortByCount(_)
SortByCount(items) ==
    IF items = <<>> THEN <<>>
    ELSE LET k == CHOOSE i \in 1..Len(items) :
                    /\ \A j \in 1..Len(items) : items[j][2] <= items[i][2]
                    /\ \A j \in 1..(i - 1) : items[j][2] < items[i][2]
         IN  <<items[k]>> \o
             SortByCount([j \in 1..(Len(items) - 1) |->
                             IF j < k THEN items[j] ELSE items[j + 1]])

----------------------------------------------------------------------------
(* metrics/pauses.py *)

PauseMetric_get_feedback(age_group, long_pauses, excessive_pauses) ==
    IF excessive_pauses > 0 THEN
        IF age_group \in YoungGroups
        THEN <<FbN("You had {excessive_pauses} really long pauses. Try to keep talking!",
                   excessive_pauses)>>
        ELSE <<FbN("You had {excessive_pauses} very long pauses (>4 seconds). Try to keep moving forward",
                   excessive_pauses)>>
    ELSE IF long_pauses > 3 THEN
        IF age_group \in YoungGroups
        THEN <<Fb("You have some long pauses. It's okay to pause briefly!")>>
        ELSE <<Fb("You have several long pauses. It's okay to pause, but try to keep them brief")>>
    ELSE IF long_pauses > 0 THEN
        <<Fb("Good control of pauses! Just a few long ones")>>
    ELSE <<Fb("Excellent! No excessive pauses detected")>>

\* lines 70-73 for the float ratio and the float tolerance
PauseMetric_base_score(long_pause_ratio, tolerance) ==
    IF FloatLessEq(long_pause_ratio, tolerance) THEN 100
    \* max(0, int(100 - (long_pause_ratio - tolerance) * 200))
    ELSE Max(0, FloatInt(
             FloatSub(FloatFromInt(100),
                 FloatMul(FloatSub(long_pause_ratio, tolerance),
                          FloatFromInt(200)))))

\* lines 76-93: the result for the pauses found
PauseMetric_result(age_group, total_pauses, long_pauses, excessive_pauses, long_pause_ratio, tolerance) ==
    [score |->
        clamp_score(PauseMetric_base_score(long_pause_ratio, tolerance)
                    - 10 * excessive_pauses, 1),
     total_pauses |-> total_pauses,
     long_pauses |-> long_pauses,
     excessive_pauses |-> excessive_pauses,
     \* round(long_pause_ratio, 3), in thousandths
     long_pause_ratio |-> FloatRoundDigits(long_pause_ratio, 3),
     feedback |->
        PauseMetric_get_feedback(age_group, long_pauses, excessive_pauses)]

PauseMetric_evaluate(age, ws) ==
    LET n == Len(ws)
        durations == [i \in 1..(n - 1) |-> ws[i + 1].start - ws[i].end]
        pauses == SelectSeq(durations, LAMBDA p : p > 0)
        long_pauses ==
            Len(SelectSeq(pauses, LAMBDA p : p > METRICS_CONFIG.long_pause_threshold))
        excessive_pauses ==
            Len(SelectSeq(pauses,
                          LAMBDA p : p > METRICS_CONFIG.excessive_pause_threshold))
    IN  IF n < 2 THEN
            [score |-> 100, total_pauses |-> 0, long_pauses |-> 0,
             excessive_pauses |-> 0,
             feedback |-> <<Fb("Not enough speech to evaluate pauses")>>]
        ELSE
            PauseMetric_result(
                BaseMetric_determine_age_group(age),
                Len(pauses), long_pauses, excessive_pauses,
                \* len(long_pauses) / total_words if total_words > 0 else 0
                IF n > 0 THEN FloatRatio(long_pauses, n) ELSE FloatZero,
                \* the float written in AGE_GROUPS
                FloatRatio(AGE_GROUPS[get_detailed_age_group(age)].pause_tolerance, 100))

----------------------------------------------------------------------------
(* metrics/fillers.py *)

\* filler_ratio and tolerance are floats
FillerMetric_get_feedback(age_group, filler_count, filler_ratio, tolerance) ==
    \* filler_ratio > tolerance * 2
    IF FloatLess(FloatMul(tolerance, FloatFromInt(2)), filler_ratio) THEN
        IF age_group \in YoungGroups
        THEN <<FbN("You said 'um' and 'uh' a lot ({filler_count} times). Try taking a breath instead!",
                   filler_count)>>
        ELSE <<FbN("You used many filler words like 'um', 'uh', 'like' ({filler_count} times). Try pausing silently instead",
                   filler_count)>>
    ELSE IF FloatLess(tolerance, filler_ratio) THEN
        IF age_group \in YoungGroups
        THEN <<FbN("You used some filler words ({filler_count} times). Keep practicing!",
                   filler_count)>>
        ELSE <<FbN("You used some filler words ({filler_count} times). Practice reducing them",
                   filler_count)>>
    ELSE <<Fb("Great! Very few filler words used")>>

\* lines 66-69 for the float ratio and the float tolerance
FillerMetric_score(filler_ratio, tolerance) ==
    IF FloatLessEq(filler_ratio, tolerance) THEN 100
    \* max(0, int(100 - (filler_ratio - tolerance) * 300))
    ELSE Max(0, FloatInt(
             FloatSub(FloatFromInt(100),
                 FloatMul(FloatSub(filler_ratio, tolerance),
                          FloatFromInt(300)))))

\* lines 71-90: the result for the fillers found
FillerMetric_result(age_group, filler_instances, filler_ratio, tolerance) ==
    [score |-> clamp_score(FillerMetric_score(filler_ratio, tolerance), 1),
     filler_count |-> Len(filler_instances),
     \* round(filler_ratio, 3), in thousandths
     filler_ratio |-> FloatRoundDigits(filler_ratio, 3),
     \* Counter(...).most_common(5)
     fillers_found |-> Take(SortByCount(CounterItems(filler_instances)), 5),
     feedback |->
        FillerMetric_get_feedback(age_group, Len(filler_instances), filler_ratio,
                                  tolerance)]

\* lines 58-63: the ratio of the fillers and the tolerance of the age
FillerMetric_counted(age, n, filler_instances) ==
    FillerMetric_result(
        BaseMetric_determine_age_group(age), filler_instances,
        \* filler_count / total_words if total_words > 0 else 0
        IF n > 0 THEN FloatRatio(Len(filler_instances), n) ELSE FloatZero,
        \* the float written in AGE_GROUPS
        FloatRatio(AGE_GROUPS[get_detailed_age_group(age)].filler_tolerance, 100))

FillerMetric_evaluate(age, ws) ==
    IF ws = <<>> THEN
        [score |-> 100, filler_count |-> 0, filler_ratio |-> 0,
         fillers_found |-> <<>>, feedback |-> <<>>]
    ELSE
        FillerMetric_counted(age, Len(ws),
            SelectSeq(WordTexts(ws), LAMBDA w : w \in METRICS_CONFIG.filler_words))

----------------------------------------------------------------------------
(* metrics/repetition.py *)

RepetitionMetric_get_feedback(age_group, consecutive_repeats, repeated_phrases) ==
    IF repeated_phrases > 2 THEN
        IF age_group \in YoungGroups
        THEN <<Fb("You repeated some phrases. Try to keep going with new ideas!")>>
        ELSE <<Fb("You repeated some phrases multiple times. Try to move forward with new ideas")>>
    ELSE IF consecutive_repeats > 3 THEN
        IF age_group \in YoungGroups
        THEN <<Fb("You repeated some words. Take a breath and continue!")>>
        ELSE <<Fb("You repeated some words back-to-back. Take a breath and continue")>>
    ELSE IF consecutive_repeats > 0 THEN
        <<Fb("Just a bit of repetition noticed - doing well overall")>>
    ELSE <<Fb("Excellent! No noticeable repetition")>>

\* a variant that gives the two youngest brackets the full penalty, to test
\* the properties against
RepetitionMetric_evaluate_unhalved(age, ws) ==
    LET age_group == BaseMetric_determine_age_group(age)
        n == Len(ws)
        word_texts == WordTexts(ws)
        consecutive_repeats ==
            Cardinality({i \in 1..(n - 1) :
                /\ word_texts[i] = word_texts[i + 1]
                /\ Len(word_texts[i]) >= METRICS_CONFIG.min_word_length_for_repeat})
        \* " ".join(word_texts[i:i+3])
        phrases ==
            [i \in 1..(n - 2) |->
                word_texts[i] \o " " \o word_texts[i + 1] \o " " \o word_texts[i + 2]]
        repeated_phrases ==
            SelectSeq(CounterItems(phrases),
                      LAMBDA pc : pc[2] >= METRICS_CONFIG.phrase_repeat_threshold)
        repeat_penalty == 5 * consecutive_repeats + 10 * Len(repeated_phrases)
        repetition_score ==
            clamp_score(100 - repeat_penalty, 1)
    IN  IF n < 5 THEN
            [score |-> 100, consecutive_repeats |-> 0,
             repeated_phrases |-> <<>>, feedback |-> <<>>]
        ELSE
            [score |-> repetition_score,
             consecutive_repeats |-> consecutive_repeats,
             repeated_phrases |-> Take(repeated_phrases, 3),
             feedback |->
                RepetitionMetric_get_feedback(age_group, consecutive_repeats,
                                              Len(repeated_phrases))]

RepetitionMetric_evaluate(age, ws) ==
    LET age_group == BaseMetric_determine_age_group(age)
        n == Len(ws)
        word_texts == WordTexts(ws)
        consecutive_repeats ==
            Cardinality({i \in 1..(n - 1) :
                /\ word_texts[i] = word_texts[i + 1]
                /\ Len(word_texts[i]) >= METRICS_CONFIG.min_word_length_for_repeat})
        \* " ".join(word_texts[i:i+3])
        phrases ==
            [i \in 1..(n - 2) |->
                word_texts[i] \o " " \o word_texts[i + 1] \o " " \o word_texts[i + 2]]
        repeated_phrases ==
            SelectSeq(CounterItems(phrases),
                      LAMBDA pc : pc[2] >= METRICS_CONFIG.phrase_repeat_threshold)
        repeat_penalty == 5 * consecutive_repeats + 10 * Len(repeated_phrases)
        \* younger children: repeat_penalty * 0.5
        repetition_score ==
            IF age_group \in YoungGroups
            THEN clamp_score(200 - repeat_penalty, 2)
            ELSE clamp_score(100 - repeat_penalty, 1)
    IN  IF n < 5 THEN
            [score |-> 100, consecutive_repeats |-> 0,
             repeated_phrases |-> <<>>, feedback |-> <<>>]
        ELSE
            [score |-> repetition_score,
             consecutive_repeats |-> consecutive_repeats,
             repeated_phrases |-> Take(repeated_phrases, 3),
             feedback |->
                RepetitionMetric_get_feedback(age_group, consecutive_repeats,
                                              Len(repeated_phrases))]

----------------------------------------------------------------------------
(* metrics/structure.py *)

StructureMetric_get_feedback(age_group, has_intro, has_conclusion) ==
    LET missing == (IF has_intro THEN <<>> ELSE <<"introduction">>) \o
                   (IF has_conclusion THEN <<>> ELSE <<"conclusion">>)
        \* ' and '.join(missing)
        joined == IF Len(missing) = 2 THEN missing[1] \o " and " \o missing[2]
                  ELSE missing[1]
    IN  IF missing # <<>> /\ age_group \in {"middle", "secondary"} THEN
            <<Fb("Try adding a clear " \o joined \o " to your speech")>>
        ELSE IF missing # <<>> THEN
            IF age_group \in YoungGroups
            THEN <<Fb("Great job! Next time, try starting with 'Hello' or ending with 'Thank you'!")>>
            ELSE <<Fb("Great effort! Next time, try starting with a greeting or ending with 'thank you'")>>
        ELSE
            IF age_group \in YoungGroups
            THEN <<Fb("Excellent! You started and ended your speech perfectly!")>>
            ELSE <<Fb("Excellent structure! Clear beginning, middle, and end")>>

StructureMetric_evaluate(age, text, segs) ==
    LET age_group == BaseMetric_determine_age_group(age)
        text_lower == Lower(text)
        \* text_lower[:200] and text_lower[-200:]
        first200 == SubSeq(text_lower, 1, Min(200, Len(text_lower)))
        last200 == SubSeq(text_lower, Max(1, Len(text_lower) - 199), Len(text_lower))
        has_intro ==
            \E k \in 1..Len(METRICS_CONFIG.intro_markers) :
                Contains(first200, METRICS_CONFIG.intro_markers[k])
        has_conclusion ==
            \E k \in 1..Len(METRICS_CONFIG.conclusion_markers) :
                Contains(last200, METRICS_CONFIG.conclusion_markers[k])
        has_body == Len(segs) >= 3 \/ Len(text) > 100
        base_score == (IF has_intro THEN 35 ELSE 0) + (IF has_body THEN 30 ELSE 0)
                      + (IF has_conclusion THEN 35 ELSE 0)
        adjusted ==
            IF age_group \in YoungGroups THEN Min(100, base_score + 30)
            ELSE IF age_group = "upper_primary" THEN Min(100, base_score + 15)
            ELSE base_score
    IN  IF Len(text) = 0 THEN
            [score |-> 0, has_intro |-> FALSE, has_body |-> FALSE,
             has_conclusion |-> FALSE,
             feedback |-> <<Fb("No speech detected")>>]
        ELSE
            [score |-> clamp_score(adjusted, 1),
             has_intro |-> has_intro, has_body |-> has_body,
             has_conclusion |-> has_conclusion,
             feedback |->
                StructureMetric_get_feedback(age_group, has_intro, has_conclusion)]

----------------------------------------------------------------------------
(* models/audio_features.py: the AudioFeatures aggregate.  None is the     *)
(* record NoAudio; the "empty" sentinel is the aggregate whose is_valid()  *)
(* is false.  The extractor fills the features with floats; the features   *)
(* handed to the metrics are written in the units their sections name.     *)
(* sample_rate, which is always the rate librosa.load was asked for, is    *)
(* left out of the aggregate.                                              *)

LoudnessFeatures(rms_mean, rms_std, rms_db_mean, rms_db_std, rms_over_time, classification) ==
    [rms_mean |-> rms_mean, rms_std |-> rms_std, rms_db_mean |-> rms_db_mean,
     rms_db_std |-> rms_db_std, rms_over_time |-> rms_over_time,
     classification |-> classification]

PitchFeatures(pitch_mean, pitch_std, pitch_range, pitch_over_time, voiced_ratio, classification) ==
    [pitch_mean |-> pitch_mean, pitch_std |-> pitch_std,
     pitch_range |-> pitch_range, pitch_over_time |-> pitch_over_time,
     voiced_ratio |-> voiced_ratio, classification |-> classification]

StaminaFeatures(energy_segments, energy_dropoff, energy_consistency, classification) ==
    [energy_segments |-> energy_segments, energy_dropoff |-> energy_dropoff,
     energy_consistency |-> energy_consistency, classification |-> classification]

AudioFeatures(loudness, pitch, stamina, duration_seconds, valid) ==
    [is_none |-> FALSE, valid |-> valid, loudness |-> loudness, pitch |-> pitch,
     stamina |-> stamina, duration_seconds |-> duration_seconds]

NoAudio == [is_none |-> TRUE]

AudioFeatures_is_valid(af) == af.valid

----------------------------------------------------------------------------
(* config/metrics_config.py: dB, Hz, hundredths (min_voiced_ratio), *)
(* eighths (stamina), seconds                                        *)

AUDIO_METRICS_CONFIG ==
    [loudness |-> [optimal_db_range |-> <<-25, -12>>,
                   too_soft_threshold |-> -30,
                   too_loud_threshold |-> -8,
                   variance_threshold |-> 8],
     pitch    |-> [monotone_std_threshold |-> 15,
                   erratic_std_threshold |-> 100,
                   min_voiced_ratio |-> 30],
     stamina  |-> [good_dropoff_ratio |-> 6,
                   warning_dropoff_ratio |-> 4,
                   consistency_threshold |-> 2,
                   min_duration_for_analysis |-> 15]]

----------------------------------------------------------------------------
(* processors/audio_features.py.  What librosa makes of the samples is the *)
(* environment of extract_features.  env holds the number of samples that  *)
(* librosa.load returned; the frames of librosa.feature.rms and of         *)
(* librosa.amplitude_to_db, numbers of single precision as the samples     *)
(* are; the frames of librosa.pyin, floats with NaN where no pitch was     *)
(* found; for each call whether it returned or raised; and whether the     *)
(* print of an except clause raises.  The numbers of the features are      *)
(* floats.                                                                 *)

\* the features built without arguments, and the sentinel of
\* AudioFeatures.empty()
LoudnessFeatures_default ==
    LoudnessFeatures(FloatZero, FloatZero, FloatOfInt(-60), FloatZero, <<>>, "optimal")
PitchFeatures_default ==
    PitchFeatures(FloatZero, FloatZero, <<FloatZero, FloatZero>>, <<>>, FloatZero,
                  "insufficient_data")
StaminaFeatures_default ==
    StaminaFeatures(<<>>, FloatFromInt(1), FloatFromInt(1), "consistent")
AudioFeatures_empty ==
    AudioFeatures(LoudnessFeatures_default, PitchFeatures_default,
                  StaminaFeatures_default, FloatZero, FALSE)

\* AudioFeatureExtractor.__init__ defaults
sample_rate == 16000
hop_length == 512
n_segments == 4

\* line 183: fewer voiced frames than this are not enough
MinVoicedFrames == 5

\* the calls of extract_features that may raise: librosa.load (line 77),
\* librosa.feature.rms (113), numpy on the rms frames and the dB frames
\* (120-126), librosa.amplitude_to_db (124), librosa.pyin (165), numpy on the
\* voiced frames (190-193), numpy on the energy segments (234-257)
ExtractorCalls ==
    {"load", "rms", "loudness_statistics", "amplitude_to_db", "pyin",
     "pitch_statistics", "stamina_statistics"}

\* what a call does: it returns, it raises an exception of class Exception
\* (an error of the decoder, a ValueError, a MemoryError), or it raises one
\* outside that class (KeyboardInterrupt, SystemExit)
CallOutcomes == {"returns", "Exception", "BaseException"}

\* the outcome of a piece of code: it raised, or it returned a value
Raised == [raised |-> TRUE]
Raise(class) == [raised |-> TRUE, class |-> class]
Returned(value) == [raised |-> FALSE, value |-> value]

\* an except clause that prints and then returns value: print raises an
\* exception of class Exception when stdout is closed or cannot encode the
\* message
AudioFeatureExtractor_except(env, value) ==
    IF env.print_raises THEN Raise("Exception") ELSE Returned(value)

\* lines 128-138
AudioFeatureExtractor_loudness_classification(rms_db_mean) ==
    IF FloatLess(rms_db_mean,
                 FloatOfInt(AUDIO_METRICS_CONFIG.loudness.too_soft_threshold))
    THEN "too_soft"
    ELSE IF FloatLess(FloatOfInt(AUDIO_METRICS_CONFIG.loudness.too_loud_threshold),
                      rms_db_mean)
    THEN "too_loud"
    ELSE "optimal"

\* lines 119-147: linear and decibel are the mean and the standard deviation
\* of the rms frames and of the dB frames
AudioFeatureExtractor_loudness(rms, linear, decibel) ==
    LoudnessFeatures(linear.mean, linear.std, decibel.mean, decibel.std, rms,
                     AudioFeatureExtractor_loudness_classification(decibel.mean))

\* _extract_loudness: float(np.mean(..)) and rms.tolist() keep the values
AudioFeatureExtractor_extract_loudness(env) ==
    IF env.raises["rms"] # "returns" THEN Raise(env.raises["rms"])
    ELSE IF env.raises["loudness_statistics"] # "returns"
    THEN Raise(env.raises["loudness_statistics"])
    ELSE IF env.raises["amplitude_to_db"] # "returns"
    THEN Raise(env.raises["amplitude_to_db"])
    ELSE Returned(AudioFeatureExtractor_loudness(
                      env.rms, np_mean_std("float32", env.rms),
                      np_mean_std("float32", env.rms_db)))

\* line 178: f0[~np.isnan(f0)]
AudioFeatureExtractor_voiced(f0) == SelectSeq(f0, LAMBDA v : ~FloatIsNaN(v))

\* lines 207-210: NaN becomes None
RECURSIVE AudioFeatureExtractor_pitch_over_time(_, _)
AudioFeatureExtractor_pitch_over_time(f0, k) ==
    IF k > Len(f0) THEN <<>>
    ELSE <<IF FloatIsNaN(f0[k]) THEN None ELSE f0[k]>>
         \o AudioFeatureExtractor_pitch_over_time(f0, k + 1)

\* lines 196-204
AudioFeatureExtractor_pitch_classification(pitch_std) ==
    IF FloatLess(pitch_std,
                 FloatFromInt(AUDIO_METRICS_CONFIG.pitch.monotone_std_threshold))
    THEN "monotone"
    ELSE IF FloatLess(FloatFromInt(AUDIO_METRICS_CONFIG.pitch.erratic_std_threshold),
                      pitch_std)
    THEN "erratic"
    ELSE "expressive"

\* lines 189-219: the statistics of the voiced frames; pitch is their mean
\* and their standard deviation
AudioFeatureExtractor_pitch_statistics(f0, voiced_f0, voiced_ratio, pitch) ==
    PitchFeatures(pitch.mean, pitch.std,
                  <<np_min(voiced_f0), np_max(voiced_f0)>>,
                  AudioFeatureExtractor_pitch_over_time(f0, 1), voiced_ratio,
                  AudioFeatureExtractor_pitch_classification(pitch.std))

\* lines 181-219: too few voiced frames give the ratio and
\* "insufficient_data", the other fields as PitchFeatures() has them; numpy
\* is called on the voiced frames only past that test
AudioFeatureExtractor_pitch(env, voiced_f0, voiced_ratio) ==
    IF \/ FloatLess(voiced_ratio,
                    FloatRatio(AUDIO_METRICS_CONFIG.pitch.min_voiced_ratio, 100))
       \/ Len(voiced_f0) < MinVoicedFrames
    THEN Returned(PitchFeatures(FloatZero, FloatZero, <<FloatZero, FloatZero>>,
                                <<>>, voiced_ratio, "insufficient_data"))
    ELSE IF env.raises["pitch_statistics"] # "returns"
    THEN Raise(env.raises["pitch_statistics"])
    ELSE Returned(AudioFeatureExtractor_pitch_statistics(
                      env.f0, voiced_f0, voiced_ratio,
                      np_mean_std("float64", voiced_f0)))

\* line 179: len(voiced_f0) / len(f0) if len(f0) > 0 else 0
AudioFeatureExtractor_voiced_ratio(f0, voiced_f0) ==
    IF Len(f0) > 0 THEN FloatQuotient(Len(voiced_f0), Len(f0)) ELSE FloatZero

AudioFeatureExtractor_pitch_of(env, voiced_f0) ==
    AudioFeatureExtractor_pitch(
        env, voiced_f0, AudioFeatureExtractor_voiced_ratio(env.f0, voiced_f0))

\* _extract_pitch: an exception of class Exception out of librosa.pyin is
\* caught, printed and answered with PitchFeatures(); nothing after it is
\* inside the try statement
AudioFeatureExtractor_extract_pitch(env) ==
    IF env.raises["pyin"] = "Exception"
    THEN AudioFeatureExtractor_except(env, PitchFeatures_default)
    ELSE IF env.raises["pyin"] # "returns" THEN Raise(env.raises["pyin"])
    ELSE AudioFeatureExtractor_pitch_of(env, AudioFeatureExtractor_voiced(env.f0))

\* lines 241-246: the mean of each of the n_segments stretches of the frames,
\* the last one running to the end; i counts from 0
RECURSIVE AudioFeatureExtractor_energy_segments(_, _, _)
AudioFeatureExtractor_energy_segments(rms_array, segment_length, i) ==
    IF i >= n_segments THEN <<>>
    ELSE <<np_mean(SubSeq(rms_array, i * segment_length + 1,
                          IF i < n_segments - 1 THEN (i + 1) * segment_length
                          ELSE Len(rms_array)))>>
         \o AudioFeatureExtractor_energy_segments(rms_array, segment_length, i + 1)

\* lines 267-272
AudioFeatureExtractor_stamina_classification(energy_dropoff, energy_consistency) ==
    IF /\ FloatLessEq(FloatQuotient(AUDIO_METRICS_CONFIG.stamina.good_dropoff_ratio, 8),
                      energy_dropoff)
       /\ FloatLessEq(FloatQuotient(AUDIO_METRICS_CONFIG.stamina.consistency_threshold, 8),
                      energy_consistency)
    THEN "consistent"
    ELSE IF FloatLess(energy_dropoff,
                      FloatQuotient(AUDIO_METRICS_CONFIG.stamina.warning_dropoff_ratio, 8))
    THEN "fading"
    ELSE "inconsistent"

\* lines 274-279
AudioFeatureExtractor_stamina(energy_segments, energy_dropoff, energy_consistency) ==
    StaminaFeatures(energy_segments, energy_dropoff, energy_consistency,
                    AudioFeatureExtractor_stamina_classification(
                        energy_dropoff, energy_consistency))

\* line 258: max(0, 1 - cv)
AudioFeatureExtractor_not_below_zero(x) ==
    IF FloatLess(FloatZero, x) THEN x ELSE FloatZero

AudioFeatureExtractor_one_minus(cv) ==
    AudioFeatureExtractor_not_below_zero(FloatSub(FloatFromInt(1), cv))

\* lines 255-260: the inverse of the coefficient of variation; energy is the
\* mean and the standard deviation of the segments
AudioFeatureExtractor_energy_consistency(energy) ==
    IF FloatLess(FloatZero, energy.mean)
    THEN AudioFeatureExtractor_one_minus(FloatDiv(energy.std, energy.mean))
    ELSE FloatZero

\* lines 249-252: the last segment over the first
AudioFeatureExtractor_energy_dropoff(energy_segments) ==
    IF FloatLess(FloatZero, energy_segments[1])
    THEN FloatDiv(energy_segments[Len(energy_segments)], energy_segments[1])
    ELSE FloatFromInt(1)

AudioFeatureExtractor_stamina_of(energy_segments) ==
    AudioFeatureExtractor_stamina(
        energy_segments,
        AudioFeatureExtractor_energy_dropoff(energy_segments),
        AudioFeatureExtractor_energy_consistency(
            np_mean_std("float64", energy_segments)))

\* _extract_stamina on the rms frames of the loudness features; np.array
\* makes floats of double precision of them
AudioFeatureExtractor_extract_stamina(env, rms_over_time) ==
    IF rms_over_time = <<>> \/ Len(rms_over_time) < n_segments
    THEN Returned(StaminaFeatures_default)
    ELSE IF env.raises["stamina_statistics"] # "returns"
    THEN Raise(env.raises["stamina_statistics"])
    ELSE IF Len(rms_over_time) \div n_segments = 0
    THEN Returned(StaminaFeatures_default)
    ELSE Returned(AudioFeatureExtractor_stamina_of(
                      AudioFeatureExtractor_energy_segments(
                          rms_over_time, Len(rms_over_time) \div n_segments, 0)))

\* lines 82-95: duration = len(y) / sr, then the three extractions one after
\* the other, an exception out of one ending the body
AudioFeatureExtractor_with_stamina(env, loudness, pitch, stamina) ==
    IF stamina.raised THEN stamina
    ELSE Returned(AudioFeatures(loudness, pitch, stamina.value,
                                FloatQuotient(env.samples, sample_rate), TRUE))

AudioFeatureExtractor_with_pitch(env, loudness, pitch) ==
    IF pitch.raised THEN pitch
    ELSE AudioFeatureExtractor_with_stamina(
             env, loudness, pitch.value,
             AudioFeatureExtractor_extract_stamina(env, loudness.rms_over_time))

AudioFeatureExtractor_with_loudness(env, loudness) ==
    IF loudness.raised THEN loudness
    ELSE AudioFeatureExtractor_with_pitch(env, loudness.value,
                                          AudioFeatureExtractor_extract_pitch(env))

\* lines 76-95: the body of the try statement of extract_features
AudioFeatureExtractor_try_extract(env) ==
    IF env.raises["load"] # "returns" THEN Raise(env.raises["load"])
    ELSE IF env.samples = 0 THEN Returned(AudioFeatures_empty)
    ELSE AudioFeatureExtractor_with_loudness(
             env, AudioFeatureExtractor_extract_loudness(env))

\* a variant without the except clause, to test the properties against
AudioFeatureExtractor_extract_features_uncaught(env) ==
    AudioFeatureExtractor_try_extract(env)

\* lines 97-99: except Exception prints and returns the sentinel; an
\* exception outside class Exception passes through
AudioFeatureExtractor_caught(env, body) ==
    IF body.raised /\ body.class = "Exception"
    THEN AudioFeatureExtractor_except(env, AudioFeatures_empty)
    ELSE body

\* extract_features: the try statement with its except clause
AudioFeatureExtractor_extract_features(env) ==
    AudioFeatureExtractor_caught(env, AudioFeatureExtractor_try_extract(env))

----------------------------------------------------------------------------
(* metrics/loudness.py.  A character outside ASCII is written {U+hex}.     *)

LoudnessMetric_get_feedback(age_group, classification, is_inconsistent) ==
    LET first ==
            IF classification = "too_soft" THEN
                IF age_group = "pre_primary"
                THEN Fb("Try using your Lion Voice! {U+1F981} ROAR so everyone can hear you!")
                ELSE IF age_group = "lower_primary"
                THEN Fb("Your voice is a bit quiet. Try speaking louder like a superhero!")
                ELSE Fb("Your voice is a bit quiet. Try speaking louder so everyone can hear!")
            ELSE IF classification = "too_loud" THEN
                IF age_group = "pre_primary"
                THEN Fb("Wow, you're loud! Let's try your indoor voice! {U+1F3E0}")
                ELSE IF age_group = "lower_primary"
                THEN Fb("Great energy! Try speaking just a bit softer.")
                ELSE Fb("You have a powerful voice! Try speaking just a bit softer.")
            ELSE
                IF age_group = "pre_primary"
                THEN Fb("Perfect voice! You sound amazing! {U+2B50}")
                ELSE IF age_group = "lower_primary"
                THEN Fb("Great voice strength! You're easy to hear!")
                ELSE Fb("Great voice strength! You're easy to hear.")
    IN  IF is_inconsistent /\ age_group \notin YoungGroups
        THEN <<first, Fb("Try to keep your voice at the same volume throughout.")>>
        ELSE <<first>>

LoudnessMetric_evaluate(age, af) ==
    LET age_group == BaseMetric_determine_age_group(age)
        config == AUDIO_METRICS_CONFIG.loudness
        loudness == af.loudness
        optimal_min == config.optimal_db_range[1]
        optimal_max == config.optimal_db_range[2]
        too_soft == config.too_soft_threshold
        too_loud == config.too_loud_threshold
        rms_db == loudness.rms_db_mean
        loudness_score ==
            IF optimal_min <= rms_db /\ rms_db <= optimal_max THEN 100
            ELSE IF rms_db < too_soft
                 THEN Max(0, IntTrunc(50 * (rms_db + 60), too_soft + 60))
            ELSE IF rms_db < optimal_min
                 THEN IntTrunc(50 * (optimal_min - too_soft) + 50 * (rms_db - too_soft),
                               optimal_min - too_soft)
            ELSE IF rms_db > too_loud
                 THEN Max(50, 100 - (rms_db - too_loud) * 5)
            ELSE IntTrunc(100 * (too_loud - optimal_max) - 20 * (rms_db - optimal_max),
                          too_loud - optimal_max)
        is_inconsistent == loudness.rms_db_std > config.variance_threshold
    IN  IF loudness.rms_mean = 0 THEN
            [score |-> 0, rms_db |-> -60, classification |-> "no_audio",
             variance |-> 0, feedback |-> <<Fb("No audio detected")>>]
        ELSE
            [score |-> clamp_score(loudness_score, 1),
             rms_db |-> rms_db,
             rms_mean |-> loudness.rms_mean,
             classification |-> loudness.classification,
             variance |-> loudness.rms_db_std,
             is_consistent |-> ~is_inconsistent,
             feedback |->
                LoudnessMetric_get_feedback(age_group, loudness.classification,
                                            is_inconsistent)]

----------------------------------------------------------------------------
(* metrics/pitch_variation.py.  voiced_ratio in hundredths.                *)

PitchVariationMetric_get_feedback(age_group, classification) ==
    IF classification = "monotone" THEN
        IF age_group = "pre_primary"
        THEN <<Fb("Try making your voice go up and down like a roller coaster! {U+1F3A2}")>>
        ELSE IF age_group = "lower_primary"
        THEN <<Fb("Try adding more expression - make your voice go high and low!")>>
        ELSE <<Fb("Try adding more expression to your voice - go up and down like a roller coaster!")>>
    ELSE IF classification = "erratic" THEN
        IF age_group = "pre_primary"
        THEN <<Fb("Great energy! Your voice is very bouncy! {U+1F389}")>>
        ELSE IF age_group = "lower_primary"
        THEN <<Fb("Good energy! Try to control your voice a bit more.")>>
        ELSE <<Fb("Good energy! Try to control your pitch a bit more.")>>
    ELSE
        IF age_group = "pre_primary"
        THEN <<Fb("Your voice sounds so interesting! {U+2B50}")>>
        ELSE IF age_group = "lower_primary"
        THEN <<Fb("Great expression! Your voice has nice variety!")>>
        ELSE <<Fb("Great expression! Your voice has nice variety.")>>

\* a variant whose penalty for an erratic voice has no limit, to test the
\* properties against
PitchVariationMetric_evaluate_unfloored(age, af) ==
    LET age_group == BaseMetric_determine_age_group(age)
        config == AUDIO_METRICS_CONFIG.pitch
        pitch == af.pitch
        classification == pitch.classification
        pitch_std == pitch.pitch_std
        monotone_threshold == config.monotone_std_threshold
        erratic_threshold == config.erratic_std_threshold
        \* middle = (monotone_threshold + erratic_threshold) / 2, kept doubled
        middle2 == monotone_threshold + erratic_threshold
        \* 2 * (middle - monotone_threshold) = 2 * (erratic_threshold - middle)
        half2 == erratic_threshold - monotone_threshold
        raw_score ==
            IF classification = "monotone" THEN
                \* int(40 + 30 * pitch_std / monotone_threshold)
                IntTrunc(40 * monotone_threshold + 30 * pitch_std, monotone_threshold)
            ELSE IF classification = "erratic" THEN
                \* int(80 - min(30, excess * 0.3)), in tenths
                IntTrunc(800 - 3 * (pitch_std - erratic_threshold), 10)
            ELSE IF 2 * pitch_std <= middle2 THEN
                \* int(70 + 20 * (pitch_std - monotone) / (middle - monotone))
                IntTrunc(70 * half2 + 20 * 2 * (pitch_std - monotone_threshold), half2)
            ELSE
                \* int(90 + 10 * (1 - (pitch_std - middle) / (erratic - middle)))
                IntTrunc(90 * half2 + 10 * (half2 - (2 * pitch_std - middle2)), half2)
        clamped == clamp_score(raw_score, 1)
        pitch_score ==
            IF age_group = "pre_primary" /\ clamped < 60
            THEN Min(70, clamped + 20) ELSE clamped
    IN  IF classification = "insufficient_data" \/ pitch.voiced_ratio < 10 THEN
            IF age_group = "pre_primary" THEN
                [score |-> 70, classification |-> "not_analyzed",
                 pitch_mean |-> 0, pitch_std |-> 0,
                 voiced_ratio |-> pitch.voiced_ratio,
                 feedback |-> <<Fb("Keep practicing your speaking!")>>]
            ELSE
                [score |-> 50, classification |-> "insufficient_data",
                 pitch_mean |-> 0, pitch_std |-> 0,
                 voiced_ratio |-> pitch.voiced_ratio,
                 feedback |-> <<Fb("Not enough voiced speech to analyze expression")>>]
        ELSE
            [score |-> pitch_score,
             classification |-> classification,
             pitch_mean |-> pitch.pitch_mean,
             pitch_std |-> pitch_std,
             pitch_range |-> pitch.pitch_range,
             voiced_ratio |-> pitch.voiced_ratio,
             feedback |-> PitchVariationMetric_get_feedback(age_group, classification)]

PitchVariationMetric_evaluate(age, af) ==
    LET age_group == BaseMetric_determine_age_group(age)
        config == AUDIO_METRICS_CONFIG.pitch
        pitch == af.pitch
        classification == pitch.classification
        pitch_std == pitch.pitch_std
        monotone_threshold == config.monotone_std_threshold
        erratic_threshold == config.erratic_std_threshold
        \* middle = (monotone_threshold + erratic_threshold) / 2, kept doubled
        middle2 == monotone_threshold + erratic_threshold
        \* 2 * (middle - monotone_threshold) = 2 * (erratic_threshold - middle)
        half2 == erratic_threshold - monotone_threshold
        raw_score ==
            IF classification = "monotone" THEN
                \* int(40 + 30 * pitch_std / monotone_threshold)
                IntTrunc(40 * monotone_threshold + 30 * pitch_std, monotone_threshold)
            ELSE IF classification = "erratic" THEN
                \* int(80 - min(30, excess * 0.3)), in tenths
                IntTrunc(800 - Min(300, 3 * (pitch_std - erratic_threshold)), 10)
            ELSE IF 2 * pitch_std <= middle2 THEN
                \* int(70 + 20 * (pitch_std - monotone) / (middle - monotone))
                IntTrunc(70 * half2 + 20 * 2 * (pitch_std - monotone_threshold), half2)
            ELSE
                \* int(90 + 10 * (1 - (pitch_std - middle) / (erratic - middle)))
                IntTrunc(90 * half2 + 10 * (half2 - (2 * pitch_std - middle2)), half2)
        clamped == clamp_score(raw_score, 1)
        pitch_score ==
            IF age_group = "pre_primary" /\ clamped < 60
            THEN Min(70, clamped + 20) ELSE clamped
    IN  IF classification = "insufficient_data" \/ pitch.voiced_ratio < 10 THEN
            IF age_group = "pre_primary" THEN
                [score |-> 70, classification |-> "not_analyzed",
                 pitch_mean |-> 0, pitch_std |-> 0,
                 voiced_ratio |-> pitch.voiced_ratio,
                 feedback |-> <<Fb("Keep practicing your speaking!")>>]
            ELSE
                [score |-> 50, classification |-> "insufficient_data",
                 pitch_mean |-> 0, pitch_std |-> 0,
                 voiced_ratio |-> pitch.voiced_ratio,
                 feedback |-> <<Fb("Not enough voiced speech to analyze expression")>>]
        ELSE
            [score |-> pitch_score,
             classification |-> classification,
             pitch_mean |-> pitch.pitch_mean,
             pitch_std |-> pitch_std,
             pitch_range |-> pitch.pitch_range,
             voiced_ratio |-> pitch.voiced_ratio,
             feedback |-> PitchVariationMetric_get_feedback(age_group, classification)]

----------------------------------------------------------------------------
(* metrics/stamina.py.  energy_dropoff and energy_consistency in eighths,  *)
(* energy segments in ten-thousandths.                                     *)

StaminaMetric_get_feedback(age_group, classification) ==
    IF classification = "fading" THEN
        IF age_group = "pre_primary"
        THEN <<Fb("You started strong! Try to stay loud until the end! {U+00F0}{U+0178}{U+2019}{U+00AA}")>>
        ELSE IF age_group = "lower_primary"
        THEN <<Fb("Great start! Try to keep your energy up until the very end!")>>
        ELSE <<Fb("Your energy dropped towards the end. Try to finish as strong as you started!")>>
    ELSE IF classification = "inconsistent" THEN
        IF age_group \in YoungGroups
        THEN <<Fb("Try to keep your voice the same volume from start to finish!")>>
        ELSE <<Fb("Try to maintain steady energy from start to finish.")>>
    ELSE
        IF age_group = "pre_primary"
        THEN <<Fb("You kept going strong the whole time! Amazing! {U+00F0}{U+0178}{U+0152}{U+0178}")>>
        ELSE <<Fb("Great job keeping your energy up throughout!")>>

\* a variant that looks at the energy segments before the duration, to test
\* the properties against
StaminaMetric_evaluate_features_first(age, af) ==
    LET age_group == BaseMetric_determine_age_group(age)
        config == AUDIO_METRICS_CONFIG.stamina
        stamina == af.stamina
        dropoff == stamina.energy_dropoff
        consistency == stamina.energy_consistency
        good_dropoff == config.good_dropoff_ratio
        warning_dropoff == config.warning_dropoff_ratio
        dropoff_score ==
            IF dropoff >= good_dropoff THEN 60
            ELSE IF dropoff >= warning_dropoff
                 \* int(30 + 30 * position / range_size)
                 THEN IntTrunc(30 * (good_dropoff - warning_dropoff)
                                  + 30 * (dropoff - warning_dropoff),
                               good_dropoff - warning_dropoff)
                 \* int(30 * dropoff / warning_dropoff)
                 ELSE IntTrunc(30 * dropoff, warning_dropoff)
        consistency_score ==
            IF consistency >= config.consistency_threshold THEN 40
            ELSE IntTrunc(40 * consistency, config.consistency_threshold)
        clamped == clamp_score(dropoff_score + consistency_score, 1)
        stamina_score ==
            IF age_group \in YoungGroups /\ clamped < 70
            THEN Min(80, clamped + 20) ELSE clamped
    IN  IF stamina.energy_segments = <<>> THEN
            [score |-> 70, classification |-> "not_analyzed",
             energy_dropoff |-> 8, energy_consistency |-> 8,
             energy_segments |-> <<>>,
             feedback |-> <<Fb("Energy analysis not available")>>]
        ELSE IF af.duration_seconds < config.min_duration_for_analysis THEN
            [score |-> 100, classification |-> "short_speech",
             energy_dropoff |-> 8, energy_consistency |-> 8,
             energy_segments |-> <<>>,
             feedback |-> <<Fb("Speech too short to analyze stamina")>>]
        ELSE
            [score |-> stamina_score,
             classification |-> stamina.classification,
             energy_dropoff |-> dropoff,
             energy_consistency |-> consistency,
             energy_segments |-> stamina.energy_segments,
             feedback |-> StaminaMetric_get_feedback(age_group, stamina.classification)]

StaminaMetric_evaluate(age, af) ==
    LET age_group == BaseMetric_determine_age_group(age)
        config == AUDIO_METRICS_CONFIG.stamina
        stamina == af.stamina
        dropoff == stamina.energy_dropoff
        consistency == stamina.energy_consistency
        good_dropoff == config.good_dropoff_ratio
        warning_dropoff == config.warning_dropoff_ratio
        dropoff_score ==
            IF dropoff >= good_dropoff THEN 60
            ELSE IF dropoff >= warning_dropoff
                 \* int(30 + 30 * position / range_size)
                 THEN IntTrunc(30 * (good_dropoff - warning_dropoff)
                                  + 30 * (dropoff - warning_dropoff),
                               good_dropoff - warning_dropoff)
                 \* int(30 * dropoff / warning_dropoff)
                 ELSE IntTrunc(30 * dropoff, warning_dropoff)
        consistency_score ==
            IF consistency >= config.consistency_threshold THEN 40
            ELSE IntTrunc(40 * consistency, config.consistency_threshold)
        clamped == clamp_score(dropoff_score + consistency_score, 1)
        stamina_score ==
            IF age_group \in YoungGroups /\ clamped < 70
            THEN Min(80, clamped + 20) ELSE clamped
    IN  IF af.duration_seconds < config.min_duration_for_analysis THEN
            [score |-> 100, classification |-> "short_speech",
             energy_dropoff |-> 8, energy_consistency |-> 8,
             energy_segments |-> <<>>,
             feedback |-> <<Fb("Speech too short to analyze stamina")>>]
        ELSE IF stamina.energy_segments = <<>> THEN
            [score |-> 70, classification |-> "not_analyzed",
             energy_dropoff |-> 8, energy_consistency |-> 8,
             energy_segments |-> <<>>,
             feedback |-> <<Fb("Energy analysis not available")>>]
        ELSE
            [score |-> stamina_score,
             classification |-> stamina.classification,
             energy_dropoff |-> dropoff,
             energy_consistency |-> consistency,
             energy_segments |-> stamina.energy_segments,
             feedback |-> StaminaMetric_get_feedback(age_group, stamina.classification)]

----------------------------------------------------------------------------
(* metrics/evaluator.py *)

TranscriptScorers ==
    {"clarity", "pace", "pause", "filler", "repetition", "structure"}
AudioScorers == {"loudness", "pitch_variation", "stamina"}

\* score * weight of lines 110-118: the integer score times the float
\* written in the table (weight in hundredths)
WeightedTerm(score, weight) ==
    FloatMul(FloatFromInt(score), FloatRatio(weight, 100))

\* lines 109-119: the result and the weight of each product, in the order in
\* which the products are added
WeightedMetrics ==
    <<<<"clarity", "clarity">>, <<"pace", "pace">>,
      <<"pause_management", "pause">>, <<"filler_reduction", "filler">>,
      <<"repetition_control", "repetition">>, <<"structure", "structure">>,
      <<"loudness", "loudness">>, <<"pitch_variation", "pitch_variation">>,
      <<"stamina", "stamina">>>>

\* st holds the sum so far and the number of the next product
RECURSIVE MetricsEvaluator_weighted_loop(_, _, _)
MetricsEvaluator_weighted_loop(weights, r, st) ==
    IF st.i > Len(WeightedMetrics) THEN st.sum
    ELSE MetricsEvaluator_weighted_loop(weights, r,
             [sum |-> FloatAdd(st.sum,
                          WeightedTerm(r[WeightedMetrics[st.i][1]].score,
                                       weights[WeightedMetrics[st.i][2]])),
              i |-> st.i + 1])

\* lines 109-119 for any weight row: whatever the row sums to, the nine
\* products are added from left to right (the first one is the sum to begin
\* with: added to zero it is itself)
MetricsEvaluator_weighted_sum(weights, r) ==
    MetricsEvaluator_weighted_loop(weights, r, [sum |-> FloatZero, i |-> 1])

\* a variant that uses one row for every age, to test the properties against
MetricsEvaluator_weights_default_row(age) == METRIC_WEIGHTS["upper_primary"]

\* the weight row the evaluator uses: self.age_group of __init__
MetricsEvaluator_weights(age) == METRIC_WEIGHTS[get_detailed_age_group(age)]

NotAnalyzed ==
    [score |-> 70, classification |-> "not_analyzed",
     feedback |-> <<Fb("Audio features not available")>>]

\* a variant that leaves out is_valid(), to test the properties against
MetricsEvaluator_has_audio_unchecked(af) == ~af.is_none

\* line 85: audio_features and audio_features.is_valid()
MetricsEvaluator_has_audio(af) == ~af.is_none /\ AudioFeatures_is_valid(af)

\* lines 75-105: the nine metric results
MetricsEvaluator_results(age, ws, text, segs, d, af) ==
    LET has_audio == MetricsEvaluator_has_audio(af)
    IN  [clarity |-> ClarityMetric_evaluate(age, ws),
         pace |-> PaceMetric_evaluate(age, ws, d),
         pause_management |-> PauseMetric_evaluate(age, ws),
         filler_reduction |-> FillerMetric_evaluate(age, ws),
         repetition_control |-> RepetitionMetric_evaluate(age, ws),
         structure |-> StructureMetric_evaluate(age, text, segs),
         loudness |->
            IF has_audio THEN LoudnessMetric_evaluate(age, af) ELSE NotAnalyzed,
         pitch_variation |->
            IF has_audio THEN PitchVariationMetric_evaluate(age, af) ELSE NotAnalyzed,
         stamina |->
            IF has_audio THEN StaminaMetric_evaluate(age, af) ELSE NotAnalyzed]

\* a variant that sums the audio scores only, to test the properties against
MetricsEvaluator_overall_score_audio_only(age, r) ==
    LET weights == MetricsEvaluator_weights(age)
    IN  FloatAdd(FloatAdd(
            WeightedTerm(r.loudness.score, weights.loudness),
            WeightedTerm(r.pitch_variation.score, weights.pitch_variation)),
            WeightedTerm(r.stamina.score, weights.stamina))

\* lines 108-119: the weighted sum, a float
MetricsEvaluator_overall_score(age, r) ==
    MetricsEvaluator_weighted_sum(MetricsEvaluator_weights(age), r)

\* lines 120-133: the report built from the nine results; overall is
\* round(overall_score, 1), in tenths
MetricsEvaluator_report(age, r) ==
    [clarity |-> r.clarity,
     pace |-> r.pace,
     pause_management |-> r.pause_management,
     filler_reduction |-> r.filler_reduction,
     repetition_control |-> r.repetition_control,
     structure |-> r.structure,
     loudness |-> r.loudness,
     pitch_variation |-> r.pitch_variation,
     stamina |-> r.stamina,
     overall |-> FloatRoundDigits(MetricsEvaluator_overall_score(age, r), 1)]

MetricsEvaluator_evaluate_all(age, ws, text, segs, d, af) ==
    MetricsEvaluator_report(age,
        MetricsEvaluator_results(age, ws, text, segs, d, af))

\* the report of evaluate_all when the module holds the given table:
\* evaluate_all reads METRIC_WEIGHTS[self.age_group] when it is called
MetricsEvaluator_report_with(table, age, r) ==
    [MetricsEvaluator_report(age, r) EXCEPT
        !.overall = FloatRoundDigits(
            MetricsEvaluator_weighted_sum(table[get_detailed_age_group(age)], r), 1)]

\* the metric names generate_improvement_suggestions walks through
SuggestionMetricNames ==
    <<"clarity", "pace", "pause_management", "filler_reduction",
      "repetition_control", "structure", "loudness", "pitch_variation", "stamina">>

\* lines 180-186 for one metric: results.get(name, {}), its score (100 when
\* missing) paired with each feedback string that does not hold
\* "not available"
MetricsEvaluator_metric_feedback(results, name) ==
    LET metric_result == IF name \in DOMAIN results THEN results[name]
                         ELSE [key \in {} |-> 0]
        score == IF "score" \in DOMAIN metric_result
                 THEN metric_result.score ELSE 100
        feedback_list == IF "feedback" \in DOMAIN metric_result
                         THEN metric_result.feedback ELSE <<>>
        kept == SelectSeq(feedback_list,
                    LAMBDA f : ~Contains(Lower(f.text), "not available"))
    IN  [i \in 1..Len(kept) |-> [score |-> score, feedback |-> kept[i]]]

\* lines 176-186: all_feedback, metric after metric
RECURSIVE MetricsEvaluator_all_feedback(_, _)
MetricsEvaluator_all_feedback(results, k) ==
    IF k = 0 THEN <<>>
    ELSE MetricsEvaluator_all_feedback(results, k - 1) \o
         MetricsEvaluator_metric_feedback(results, SuggestionMetricNames[k])

\* list.sort(key=score): stable, entries of equal score keep their order
RECURSIVE SortByScore(_)
SortByScore(entries) ==
    IF entries = <<>> THEN <<>>
    ELSE LET n == Len(entries)
             last == entries[n]
             sorted == SortByScore(SubSeq(entries, 1, n - 1))
             \* last goes behind every entry whose score is not greater
             before == SelectSeq(sorted, LAMBDA e : e.score <= last.score)
             after == SelectSeq(sorted, LAMBDA e : e.score > last.score)
         IN  before \o <<last>> \o after

\* lines 192-199: the loop that collects unique suggestions; the length is
\* tested after an entry was handled
RECURSIVE MetricsEvaluator_collect(_, _, _, _)
MetricsEvaluator_collect(all_feedback, i, suggestions, max) ==
    IF i > Len(all_feedback) THEN suggestions
    ELSE LET feedback == all_feedback[i].feedback
             seen == {suggestions[j] : j \in 1..Len(suggestions)}
             next == IF feedback \notin seen
                     THEN Append(suggestions, feedback) ELSE suggestions
         IN  IF Len(next) >= max THEN next
             ELSE MetricsEvaluator_collect(all_feedback, i + 1, next, max)

\* a variant that leaves out the sort, to test the properties against
MetricsEvaluator_generate_improvement_suggestions_unsorted(results, max) ==
    MetricsEvaluator_collect(
        MetricsEvaluator_all_feedback(results, Len(SuggestionMetricNames)),
        1, <<>>, max)

MetricsEvaluator_generate_improvement_suggestions(results, max) ==
    MetricsEvaluator_collect(
        SortByScore(MetricsEvaluator_all_feedback(results, Len(SuggestionMetricNames))),
        1, <<>>, max)

\* the scorers evaluate_all calls
MetricsEvaluator_calls(af) ==
    TranscriptScorers \cup
    (IF MetricsEvaluator_has_audio(af) THEN AudioScorers ELSE {})

----------------------------------------------------------------------------
(* config/presentation_config.py *)

BADGES ==
    [pre_primary |-> <<
        [id |-> "strong_voice", name |-> "Strong Voice Badge",
         emoji |-> "{U+1F981}",
         condition |-> "loudness_score >= 70",
         animation |-> "roar"],
        [id |-> "brave_speaker", name |-> "Brave Speaker Badge",
         emoji |-> "{U+2B50}",
         condition |-> "voice_present and duration >= 10",
         animation |-> "sparkle"],
        [id |-> "happy_talker", name |-> "Happy Talker Badge",
         emoji |-> "{U+1F31F}",
         condition |-> "pitch_variation_score >= 60",
         animation |-> "bounce"]
     >>,
     lower_primary |-> <<
        [id |-> "confident_speaker", name |-> "Confident Speaker Badge",
         emoji |-> "{U+1F3C5}",
         condition |-> "loudness_score >= 70 and pace_score >= 60",
         animation |-> "bounce"],
        [id |-> "clear_voice", name |-> "Clear Voice Badge",
         emoji |-> "{U+1F50A}",
         condition |-> "clarity_score >= 70",
         animation |-> "pulse"],
        [id |-> "perfect_pace", name |-> "Perfect Pace Badge",
         emoji |-> "{U+23F1}{U+FE0F}",
         condition |-> "pace_score >= 80",
         animation |-> "spin"],
        [id |-> "expressive_star", name |-> "Expressive Star",
         emoji |-> "{U+1F308}",
         condition |-> "pitch_variation_score >= 75",
         animation |-> "rainbow"]
     >>,
     upper_primary |-> <<
        [id |-> "all_rounder", name |-> "All-Rounder Badge",
         emoji |-> "{U+1F3AF}",
         condition |-> "all_scores >= 70",
         animation |-> "confetti"],
        [id |-> "expression_star", name |-> "Expression Star",
         emoji |-> "{U+1F31F}",
         condition |-> "pitch_variation_score >= 80",
         animation |-> "sparkle"],
        [id |-> "confidence_champion", name |-> "Confidence Champion",
         emoji |-> "{U+1F4AA}",
         condition |-> "loudness_score >= 85",
         animation |-> "flex"],
        [id |-> "endurance_master", name |-> "Endurance Master",
         emoji |-> "{U+1F3C3}",
         condition |-> "stamina_score >= 80",
         animation |-> "run"],
        [id |-> "smooth_speaker", name |-> "Smooth Speaker",
         emoji |-> "{U+1F3A4}",
         condition |-> "filler_score >= 90",
         animation |-> "mic_drop"]
     >>,
     middle |-> <<
        [id |-> "professional_speaker", name |-> "Professional Speaker",
         emoji |-> "{U+1F393}",
         condition |-> "overall_score >= 80",
         animation |-> "graduate"],
        [id |-> "structure_master", name |-> "Structure Master",
         emoji |-> "{U+1F4CA}",
         condition |-> "structure_score >= 85",
         animation |-> "chart"]
     >>,
     secondary |-> <<
        [id |-> "orator", name |-> "Master Orator",
         emoji |-> "{U+1F3C6}",
         condition |-> "overall_score >= 85",
         animation |-> "trophy"]
     >>]

CHARACTER_MESSAGES ==
    [too_soft |-> <<
        "Try Lion Voice! {U+1F981} ROAR so everyone can hear you!",
        "Can you be louder like a big dinosaur? {U+1F996}",
        "Let's wake up the sleepy owl with your voice! {U+1F989}",
        "Use your superhero voice! {U+1F9B8}",
        "Speak up like a singing bird! {U+1F426}"
     >>,
     just_right |-> <<
        "Perfect voice! You sound amazing! {U+2B50}",
        "Goldilocks would say your voice is JUST RIGHT! {U+1F43B}",
        "Your voice is as bright as sunshine! {U+2600}{U+FE0F}",
        "Wow! You spoke like a star! {U+1F31F}",
        "What a wonderful speaker you are! {U+1F389}"
     >>,
     too_loud |-> <<
        "Wow, you're loud! Let's try indoor voice! {U+1F3E0}",
        "Shh, we don't want to scare the bunny! {U+1F430}",
        "Great energy! Now let's be a little gentler {U+1F338}",
        "You're powerful! Let's use our gentle giant voice {U+1F418}"
     >>,
     celebration |-> <<
        "You did it! Amazing job speaking! {U+1F389}",
        "Superstar! You spoke so well! {U+1F31F}",
        "Hooray! What a great speaker you are! {U+1F38A}",
        "Give yourself a big hug! You were wonderful! {U+1F917}",
        "You're a speaking champion! {U+1F3C6}"
     >>,
     encouragement |-> <<
        "You're doing great! Keep trying! {U+1F4AA}",
        "Every speaker practices! You're learning! {U+1F4DA}",
        "I believe in you! Try again! {U+1F308}",
        "You're getting better every time! {U+1F680}"
     >>]

ICONS ==
    [pace |->
        [too_slow |-> [icon |-> "{U+1F422}", label |-> "Turtle Pace"],
         just_right |-> [icon |-> "{U+1F44D}", label |-> "Perfect!"],
         too_fast |-> [icon |-> "{U+1F407}", label |-> "Bunny Fast"]],
     voice_strength |->
        [levels |-> <<
            [icon |-> "{U+1F507}", label |-> "Very Quiet"],
            [icon |-> "{U+1F508}", label |-> "Quiet"],
            [icon |-> "{U+1F509}", label |-> "Good"],
            [icon |-> "{U+1F50A}", label |-> "Great"],
            [icon |-> "{U+1F4E2}", label |-> "Strong"],
            [icon |-> "{U+1F50A}{U+2728}", label |-> "Perfect!"]
         >>],
     expression |->
        [levels |-> <<
            [icon |-> "{U+1F610}", label |-> "Flat"],
            [icon |-> "{U+1F642}", label |-> "Okay"],
            [icon |-> "{U+1F60A}", label |-> "Good"],
            [icon |-> "{U+1F603}", label |-> "Great"],
            [icon |-> "{U+1F929}", label |-> "Amazing"],
            [icon |-> "{U+2B50}", label |-> "Superstar!"]
         >>]]

COLORS ==
    [metrics |->
        [confidence |-> "#4CAF50",
         clarity |-> "#2196F3",
         expression |-> "#FF9800",
         pace |-> "#9C27B0",
         stamina |-> "#E91E63",
         structure |-> "#00BCD4"]]

\* d.get(key, default)
Get(d, key, default) == IF key \in DOMAIN d THEN d[key] ELSE default

\* isinstance(value, dict), for a value that is a number or a dict: a number
\* is written with a sign or a digit first, and a float is the record of its
\* sign, significand and exponent
IsInteger(value) ==
    SubSeq(ToString(value), 1, 1) \in
        {"-", "0", "1", "2", "3", "4", "5", "6", "7", "8", "9"}

IsDict(value) ==
    IF IsInteger(value) THEN FALSE ELSE DOMAIN value # {"s", "m", "e"}

\* the position of the first occurrence of sep in s, 0 when there is none
IndexOf(s, sep) ==
    IF Contains(s, sep)
    THEN CHOOSE i \in 1..(Len(s) - Len(sep) + 1) :
            /\ SubSeq(s, i, i + Len(sep) - 1) = sep
            /\ \A j \in 1..(i - 1) : SubSeq(s, j, j + Len(sep) - 1) # sep
    ELSE 0

\* s.split(sep)
RECURSIVE Split(_, _)
Split(s, sep) ==
    LET i == IndexOf(s, sep)
    IN  IF i = 0 THEN <<s>>
        ELSE <<SubSeq(s, 1, i - 1)>> \o Split(SubSeq(s, i + Len(sep), Len(s)), sep)

Digits == "0123456789"

\* int(s) for a string of decimal digits
RECURSIVE ParseInt(_)
ParseInt(s) ==
    IF Len(s) = 0 THEN 0
    ELSE 10 * ParseInt(SubSeq(s, 1, Len(s) - 1)) +
         (CHOOSE v \in 0..9 : Char(Digits, v + 1) = Char(s, Len(s)))

\* random.choice(CHARACTER_MESSAGES.get(category, ...)), rng the draw
get_random_message(category, rng) ==
    LET messages == Get(CHARACTER_MESSAGES, category, CHARACTER_MESSAGES.encouragement)
    IN  messages[(rng % Len(messages)) + 1]

\* the draws random.choice can make on the longest message list
RandomDraws ==
    0..(Len(CHARACTER_MESSAGES.celebration) - 1)

get_icon_for_level(metric, level) ==
    LET icons == Get(Get(ICONS, metric, [none |-> <<>>]), "levels", <<>>)
    IN  IF icons = <<>> THEN [icon |-> "{U+2753}", label |-> "Unknown"]
        ELSE icons[Min(level, Len(icons) - 1) + 1]

\* wpm < min_wpm * 0.8, wpm > max_wpm * 1.2 on floats
get_pace_icon_between(wpm, low, high) ==
    IF FloatLess(wpm, low) THEN ICONS.pace.too_slow
    ELSE IF FloatLess(high, wpm) THEN ICONS.pace.too_fast
    ELSE ICONS.pace.just_right

\* wpm in tenths
get_pace_icon(pace_score, wpm, ideal_range) ==
    get_pace_icon_between(FloatRatio(wpm, 10),
                          FloatMul(FloatFromInt(ideal_range[1]), FloatRatio(80, 100)),
                          FloatMul(FloatFromInt(ideal_range[2]), FloatRatio(120, 100)))

\* int(condition.split(">= ")[1])
BadgeThreshold(condition) == ParseInt(Split(condition, ">= ")[2])

\* a variant in which a loudness of exactly 30 counts as a voice, to test the
\* properties against
BadgeEarned_voice_from_30(condition, scores, duration) ==
    IF /\ Contains(condition, "loudness_score >= ")
       /\ Contains(condition, " and pace_score >= ")
    THEN LET parts == Split(condition, " and ")
             loudness_threshold == ParseInt(Split(parts[1], ">= ")[2])
             pace_threshold == ParseInt(Split(parts[2], ">= ")[2])
         IN  /\ Get(scores, "loudness", 0) >= loudness_threshold
             /\ Get(scores, "pace", 0) >= pace_threshold
    ELSE IF Contains(condition, "voice_present and duration >= ")
    THEN /\ Get(scores, "loudness", 0) >= 30
         /\ duration >= 100 * BadgeThreshold(condition)
    ELSE IF Contains(condition, "all_scores >= ")
    THEN \A k \in DOMAIN scores :
            IF k = "overall" THEN scores[k] >= 10 * BadgeThreshold(condition)
            ELSE scores[k] >= BadgeThreshold(condition)
    ELSE IF Contains(condition, "loudness_score >= ")
    THEN Get(scores, "loudness", 0) >= BadgeThreshold(condition)
    ELSE IF Contains(condition, "clarity_score >= ")
    THEN Get(scores, "clarity", 0) >= BadgeThreshold(condition)
    ELSE IF Contains(condition, "pace_score >= ")
    THEN Get(scores, "pace", 0) >= BadgeThreshold(condition)
    ELSE IF Contains(condition, "pitch_variation_score >= ")
    THEN Get(scores, "pitch_variation", 0) >= BadgeThreshold(condition)
    ELSE IF Contains(condition, "stamina_score >= ")
    THEN Get(scores, "stamina", 0) >= BadgeThreshold(condition)
    ELSE IF Contains(condition, "filler_score >= ")
    THEN Get(scores, "filler", 0) >= BadgeThreshold(condition)
    ELSE IF Contains(condition, "structure_score >= ")
    THEN Get(scores, "structure", 0) >= BadgeThreshold(condition)
    ELSE IF Contains(condition, "overall_score >= ")
    THEN Get(scores, "overall", 0) >= 10 * BadgeThreshold(condition)
    ELSE FALSE

\* lines 341-380: whether the condition of a badge holds; the overall
\* score is in tenths, every other score in points, the duration in hundredths
\* of a second
BadgeEarned(condition, scores, duration) ==
    IF /\ Contains(condition, "loudness_score >= ")
       /\ Contains(condition, " and pace_score >= ")
    THEN LET parts == Split(condition, " and ")
             loudness_threshold == ParseInt(Split(parts[1], ">= ")[2])
             pace_threshold == ParseInt(Split(parts[2], ">= ")[2])
         IN  /\ Get(scores, "loudness", 0) >= loudness_threshold
             /\ Get(scores, "pace", 0) >= pace_threshold
    ELSE IF Contains(condition, "voice_present and duration >= ")
    THEN /\ Get(scores, "loudness", 0) > 30
         /\ duration >= 100 * BadgeThreshold(condition)
    ELSE IF Contains(condition, "all_scores >= ")
    THEN \A k \in DOMAIN scores :
            IF k = "overall" THEN scores[k] >= 10 * BadgeThreshold(condition)
            ELSE scores[k] >= BadgeThreshold(condition)
    ELSE IF Contains(condition, "loudness_score >= ")
    THEN Get(scores, "loudness", 0) >= BadgeThreshold(condition)
    ELSE IF Contains(condition, "clarity_score >= ")
    THEN Get(scores, "clarity", 0) >= BadgeThreshold(condition)
    ELSE IF Contains(condition, "pace_score >= ")
    THEN Get(scores, "pace", 0) >= BadgeThreshold(condition)
    ELSE IF Contains(condition, "pitch_variation_score >= ")
    THEN Get(scores, "pitch_variation", 0) >= BadgeThreshold(condition)
    ELSE IF Contains(condition, "stamina_score >= ")
    THEN Get(scores, "stamina", 0) >= BadgeThreshold(condition)
    ELSE IF Contains(condition, "filler_score >= ")
    THEN Get(scores, "filler", 0) >= BadgeThreshold(condition)
    ELSE IF Contains(condition, "structure_score >= ")
    THEN Get(scores, "structure", 0) >= BadgeThreshold(condition)
    ELSE IF Contains(condition, "overall_score >= ")
    THEN Get(scores, "overall", 0) >= 10 * BadgeThreshold(condition)
    ELSE FALSE

\* the earned badges of the group's table, in the order of the table
get_badges_for_scores(scores, age_group, duration) ==
    LET available_badges == Get(BADGES, age_group, <<>>)
        earned == SelectSeq(available_badges,
                    LAMBDA badge : BadgeEarned(badge.condition, scores, duration))
    IN  [i \in 1..Len(earned) |->
            [id |-> earned[i].id, name |-> earned[i].name,
             emoji |-> earned[i].emoji, animation |-> earned[i].animation]]

----------------------------------------------------------------------------
(* presenters *)

FORMAT_VERSION == "1.0"

\* presenters/base.py: the score of a metric, from the "scores" table of the
\* raw evaluation or else from the metric's own result
BasePresenter_get_score(raw_evaluation, metric) ==
    IF "scores" \in DOMAIN raw_evaluation
    THEN Get(raw_evaluation.scores, metric, 0)
    ELSE Get(Get(raw_evaluation, metric, [none |-> 0]), "score", 0)

\* the duration in hundredths of a second
BasePresenter_get_duration(raw_evaluation) ==
    IF "metadata" \in DOMAIN raw_evaluation
    THEN Get(raw_evaluation.metadata, "duration_seconds", 0)
    ELSE 0

(* presenters/pre_primary.py *)

\* a variant with both limits moved by one, to test the properties against
PrePrimaryPresenter_get_voice_strength_exclusive(loudness_score) ==
    IF loudness_score > 70 THEN "lion"
    ELSE IF loudness_score <= 40 THEN "mouse"
    ELSE "just_right"

PrePrimaryPresenter_get_voice_strength(loudness_score) ==
    IF loudness_score >= 70 THEN "lion"
    ELSE IF loudness_score < 40 THEN "mouse"
    ELSE "just_right"

PrePrimaryPresenter_get_character_info(voice_strength) ==
    IF voice_strength = "lion" THEN <<"lion", "roaring">>
    ELSE IF voice_strength = "mouse" THEN <<"lion", "encouraging">>
    ELSE <<"lion", "celebrating">>

PrePrimaryPresenter_get_sound_effect(voice_strength, earned_badge) ==
    IF earned_badge THEN "celebration_fanfare"
    ELSE IF voice_strength = "lion" THEN "lion_roar"
    ELSE IF voice_strength = "mouse" THEN "encouragement_chime"
    ELSE "celebration_chime"

\* lines 49-55: the message drawn for the voice strength
PrePrimaryPresenter_message(voice_strength, rng) ==
    IF voice_strength = "lion" THEN get_random_message("just_right", rng)
    ELSE IF voice_strength = "mouse" THEN get_random_message("too_soft", rng)
    ELSE get_random_message("just_right", rng)

\* lines 58-62: the badges earned on loudness, pitch variation and duration
PrePrimaryPresenter_badges(raw_evaluation) ==
    get_badges_for_scores(
        [loudness |-> BasePresenter_get_score(raw_evaluation, "loudness"),
         pitch_variation |-> BasePresenter_get_score(raw_evaluation, "pitch_variation")],
        "pre_primary", BasePresenter_get_duration(raw_evaluation))

\* lines 68-91: the payload; duration_seconds is round(duration, 1) in tenths
PrePrimaryPresenter_payload(loudness_score, duration, badge, message) ==
    LET voice_strength == PrePrimaryPresenter_get_voice_strength(loudness_score)
        voice_detected == loudness_score > 20
        info == PrePrimaryPresenter_get_character_info(voice_strength)
        sound_effect ==
            PrePrimaryPresenter_get_sound_effect(voice_strength, badge # None)
    IN  [age_group |-> "pre_primary",
         format_version |-> FORMAT_VERSION,
         visuals |->
            [main_character |-> info[1],
             character_state |-> info[2],
             background_theme |-> IF badge # None THEN "stars" ELSE "clouds"],
         voice_detected |-> voice_detected,
         voice_strength |-> voice_strength,
         duration_seconds |-> FloatRoundDigits(FloatRatio(duration, 100), 1),
         badge |-> badge,
         message |->
            [text |-> message, character |-> info[1], tts_enabled |-> TRUE],
         audio_feedback |->
            [sound_effect |-> sound_effect,
             tts_message |->
                IF voice_detected THEN message ELSE "Try speaking louder!"],
         show_to_child |-> TRUE]

\* badges[0] if badges else None
FirstBadge(badges) == IF badges # <<>> THEN badges[1] ELSE None

\* a draw among the badges, to test the properties against
DrawnBadge(badges, rng) ==
    IF badges # <<>> THEN badges[(rng % Len(badges)) + 1] ELSE None

\* a variant that draws the badge at random, to test the properties against
PrePrimaryPresenter_transform_random_badge(raw_evaluation, rng) ==
    LET loudness_score == BasePresenter_get_score(raw_evaluation, "loudness")
    IN  PrePrimaryPresenter_payload(
            loudness_score,
            BasePresenter_get_duration(raw_evaluation),
            DrawnBadge(PrePrimaryPresenter_badges(raw_evaluation), rng),
            PrePrimaryPresenter_message(
                PrePrimaryPresenter_get_voice_strength(loudness_score), rng))

PrePrimaryPresenter_transform(raw_evaluation, rng) ==
    LET loudness_score == BasePresenter_get_score(raw_evaluation, "loudness")
    IN  PrePrimaryPresenter_payload(
            loudness_score,
            BasePresenter_get_duration(raw_evaluation),
            FirstBadge(PrePrimaryPresenter_badges(raw_evaluation)),
            PrePrimaryPresenter_message(
                PrePrimaryPresenter_get_voice_strength(loudness_score), rng))

(* presenters/lower_primary.py *)

LowerPrimaryPresenter_score_to_level(score) ==
    IF score >= 90 THEN 5
    ELSE IF score >= 75 THEN 4
    ELSE IF score >= 60 THEN 3
    ELSE IF score >= 40 THEN 2
    ELSE IF score >= 20 THEN 1
    ELSE 0

\* the pace entry of the metrics for the icon found
LowerPrimaryPresenter_pace_metric(pace_icon_data) ==
    [id |-> "pace", icon |-> pace_icon_data.icon,
     label |-> pace_icon_data.label, color |-> COLORS.metrics.pace]

LowerPrimaryPresenter_build_metrics(loudness_score, pace_score, pitch_score, wpm) ==
    LET voice_level == LowerPrimaryPresenter_score_to_level(loudness_score)
        voice_icon == get_icon_for_level("voice_strength", voice_level)
        ideal_range == AGE_GROUPS["lower_primary"].wpm_range
        expression_level == LowerPrimaryPresenter_score_to_level(pitch_score)
        expression_icon == get_icon_for_level("expression", expression_level)
    IN  <<[id |-> "voice_strength", icon |-> voice_icon.icon,
           level |-> voice_level, max_level |-> 5, label |-> voice_icon.label,
           color |-> COLORS.metrics.confidence],
          LowerPrimaryPresenter_pace_metric(
              get_pace_icon(pace_score, wpm, ideal_range)),
          [id |-> "expression", icon |-> expression_icon.icon,
           level |-> expression_level, max_level |-> 5,
           label |-> expression_icon.label,
           color |-> COLORS.metrics.expression]>>

\* avg_score = sum(scores.values()) / len(scores) over the four scores
LowerPrimaryPresenter_build_message(scores, badge) ==
    LET total == scores.loudness + scores.pace + scores.pitch_variation +
                 scores.clarity
    IN  IF badge # None
        THEN "Great job! You unlocked the " \o badge.name \o "! " \o badge.emoji
        ELSE IF total >= 70 * 4 THEN "Wonderful speaking! Keep it up!"
        ELSE IF total >= 50 * 4 THEN "Good effort! You're getting better!"
        ELSE "Nice try! Keep practicing!"

\* wpm in tenths: the pace entry's words_per_minute, else its wpm, else 100
LowerPrimaryPresenter_wpm(raw_evaluation) ==
    LET pace_data == Get(Get(raw_evaluation, "detailed_analysis", [none |-> 0]),
                         "pace", [none |-> 0])
    IN  Get(pace_data, "words_per_minute", Get(pace_data, "wpm", 1000))

\* lines 48-77: the payload for the scores and the badge found
LowerPrimaryPresenter_payload(scores, wpm, badge) ==
    [age_group |-> "lower_primary",
     format_version |-> FORMAT_VERSION,
     metrics |-> LowerPrimaryPresenter_build_metrics(
                    scores.loudness, scores.pace, scores.pitch_variation, wpm),
     badge |-> badge,
     message |->
        [text |-> LowerPrimaryPresenter_build_message(scores, badge),
         character |-> None, tts_enabled |-> FALSE],
     show_to_child |-> TRUE]

\* lines 42-61: the badge is badges[0] if badges else None
LowerPrimaryPresenter_scored(raw_evaluation, scores) ==
    LowerPrimaryPresenter_payload(
        scores, LowerPrimaryPresenter_wpm(raw_evaluation),
        FirstBadge(get_badges_for_scores(
                       scores, "lower_primary",
                       BasePresenter_get_duration(raw_evaluation))))

LowerPrimaryPresenter_transform(raw_evaluation) ==
    LowerPrimaryPresenter_scored(
        raw_evaluation,
        [loudness |-> BasePresenter_get_score(raw_evaluation, "loudness"),
         pace |-> BasePresenter_get_score(raw_evaluation, "pace"),
         pitch_variation |-> BasePresenter_get_score(raw_evaluation, "pitch_variation"),
         clarity |-> BasePresenter_get_score(raw_evaluation, "clarity")])

(* presenters/upper_primary.py *)

UpperPrimaryPresenter_build_progress_bars(loudness, clarity, expression, pace) ==
    <<[id |-> "confidence", label |-> "Confidence", value |-> loudness,
       color |-> COLORS.metrics.confidence],
      [id |-> "clarity", label |-> "Clarity", value |-> clarity,
       color |-> COLORS.metrics.clarity],
      [id |-> "expression", label |-> "Expression", value |-> expression,
       color |-> COLORS.metrics.expression],
      [id |-> "pace", label |-> "Pace", value |-> pace,
       color |-> COLORS.metrics.pace]>>

\* the keys of the presenter's scores table, in insertion order
UpperPrimaryScoreKeys ==
    <<"loudness", "clarity", "pitch_variation", "pace", "stamina", "filler",
      "structure", "overall">>

tip_map ==
    [loudness |->
        [text |-> "Try speaking a bit louder next time!",
         target_metric |-> "confidence"],
     clarity |->
        [text |-> "Focus on pronouncing each word clearly.",
         target_metric |-> "clarity"],
     pitch_variation |->
        [text |-> "Add more expression - make your voice go up and down!",
         target_metric |-> "expression"],
     pace |->
        [text |-> "Watch your speaking speed - not too fast, not too slow.",
         target_metric |-> "pace"],
     filler |->
        [text |-> "Try using fewer filler words like 'um' - pause silently instead!",
         target_metric |-> "confidence"],
     stamina |->
        [text |-> "Keep your energy up until the very end!",
         target_metric |-> "confidence"],
     structure |->
        [text |-> "Start with a greeting and end with 'thank you'!",
         target_metric |-> "clarity"]]

\* s.replace("_", " ")
RECURSIVE ReplaceUnderscores(_)
ReplaceUnderscores(s) ==
    IF Len(s) = 0 THEN ""
    ELSE (IF Char(s, 1) = "_" THEN " " ELSE Char(s, 1)) \o
         ReplaceUnderscores(SubSeq(s, 2, Len(s)))

UpperPrimaryPresenter_get_improvement_tip(raw_evaluation, scores) ==
    LET keys == SelectSeq(UpperPrimaryScoreKeys, LAMBDA k : k # "overall")
        \* min(metric_scores, key=metric_scores.get): the first key that
        \* holds the lowest score
        lowest_index ==
            CHOOSE i \in 1..Len(keys) :
                /\ \A j \in 1..Len(keys) : scores[keys[i]] <= scores[keys[j]]
                /\ \A j \in 1..(i - 1) : scores[keys[j]] > scores[keys[i]]
        lowest_metric == keys[lowest_index]
        lowest_score == scores[lowest_metric]
    IN  IF keys = <<>>
        THEN [text |-> "Great job! Keep practicing!", target_metric |-> "confidence"]
        ELSE IF lowest_score >= 80
        THEN [text |-> "Amazing work! You're doing great - keep it up!",
              target_metric |-> "confidence"]
        ELSE Get(tip_map, lowest_metric,
                 [text |-> "Let's work on improving your " \o
                           ReplaceUnderscores(lowest_metric) \o "!",
                  target_metric |-> lowest_metric])

UpperPrimaryPresenter_transform(raw_evaluation) ==
    LET loudness_score == BasePresenter_get_score(raw_evaluation, "loudness")
        clarity_score == BasePresenter_get_score(raw_evaluation, "clarity")
        pitch_score == BasePresenter_get_score(raw_evaluation, "pitch_variation")
        pace_score == BasePresenter_get_score(raw_evaluation, "pace")
        stamina_score == BasePresenter_get_score(raw_evaluation, "stamina")
        filler_score == BasePresenter_get_score(raw_evaluation, "filler_reduction")
        structure_score == BasePresenter_get_score(raw_evaluation, "structure")
        duration == BasePresenter_get_duration(raw_evaluation)
        scores ==
            [loudness |-> loudness_score, clarity |-> clarity_score,
             pitch_variation |-> pitch_score, pace |-> pace_score,
             stamina |-> stamina_score, filler |-> filler_score,
             structure |-> structure_score,
             \* raw_evaluation.get("scores", {}).get("overall", 0)
             overall |-> Get(Get(raw_evaluation, "scores", [none |-> 0]),
                             "overall", 0)]
    IN  [age_group |-> "upper_primary",
         format_version |-> FORMAT_VERSION,
         progress_bars |-> UpperPrimaryPresenter_build_progress_bars(
                              loudness_score, clarity_score, pitch_score, pace_score),
         improvement_tip |->
            UpperPrimaryPresenter_get_improvement_tip(raw_evaluation, scores),
         badges_earned |-> get_badges_for_scores(scores, "upper_primary", duration),
         streak |-> None,
         show_to_child |-> TRUE]

(* presenters/detailed.py *)

DetailedPresenter_age_group(student_age_) ==
    IF student_age_ <= 13 THEN "middle" ELSE "secondary"

DetailedPresenter_get_metric_details(metric, data) ==
    IF metric = "clarity" THEN
        [average_confidence |-> Get(data, "average_confidence", None),
         low_confidence_count |-> Get(data, "low_confidence_count", None)]
    ELSE IF metric = "pace" THEN
        [words_per_minute |->
            Get(data, "words_per_minute", Get(data, "wpm", None)),
         ideal_range |-> Get(data, "ideal_range", None)]
    ELSE IF metric \in {"pause_management", "pauses"} THEN
        [long_pauses |-> Get(data, "long_pauses", None),
         excessive_pauses |-> Get(data, "excessive_pauses", None)]
    ELSE IF metric \in {"filler_reduction", "fillers"} THEN
        [filler_count |-> Get(data, "filler_count", None),
         common_fillers |->
            Get(data, "common_fillers", Get(data, "fillers_found", None))]
    ELSE IF metric \in {"repetition_control", "repetition"} THEN
        [consecutive_repeats |-> Get(data, "consecutive_repeats", None),
         repeated_phrases |-> Get(data, "repeated_phrases", None)]
    ELSE IF metric = "structure" THEN
        [has_intro |-> Get(data, "has_intro", Get(data, "has_introduction", None)),
         has_conclusion |-> Get(data, "has_conclusion", None)]
    ELSE IF metric = "loudness" THEN
        [classification |-> Get(data, "classification", None),
         rms_db |-> Get(data, "rms_db", None)]
    ELSE IF metric = "pitch_variation" THEN
        [classification |-> Get(data, "classification", None),
         pitch_range |-> Get(data, "pitch_range", None)]
    ELSE IF metric = "stamina" THEN
        [classification |-> Get(data, "classification", None),
         energy_dropoff |-> Get(data, "energy_dropoff", None)]
    ELSE <<>>

\* {**a, **b}
Merge(a, b) ==
    [k \in DOMAIN a \cup DOMAIN b |-> IF k \in DOMAIN b THEN b[k] ELSE a[k]]

\* lines 40-44: a score that is a dict gives its own score
DetailedPresenter_clean_score(value) ==
    IF IsDict(value) THEN Get(value, "score", 0) ELSE value

\* lines 49-57: an analysis that is a dict keeps its score, its feedback and
\* the details of its metric; any other value is kept as the score
DetailedPresenter_clean_analysis(metric, data) ==
    IF IsDict(data)
    THEN Merge([score |-> Get(data, "score", 0),
                feedback |-> Get(data, "feedback", <<>>)],
               DetailedPresenter_get_metric_details(metric, data))
    ELSE [score |-> data]

DetailedPresenter_transform(student_age_, raw_evaluation) ==
    LET scores == Get(raw_evaluation, "scores", <<>>)
        detailed_analysis == Get(raw_evaluation, "detailed_analysis", <<>>)
        suggestions == Get(raw_evaluation, "improvement_suggestions", <<>>)
        clean_scores ==
            [key \in DOMAIN scores |-> DetailedPresenter_clean_score(scores[key])]
        clean_analysis ==
            [metric \in DOMAIN detailed_analysis |->
                DetailedPresenter_clean_analysis(metric, detailed_analysis[metric])]
    IN  [age_group |-> DetailedPresenter_age_group(student_age_),
         format_version |-> FORMAT_VERSION,
         scores |-> clean_scores,
         detailed_analysis |-> clean_analysis,
         improvement_suggestions |-> Take(suggestions, 5),
         show_to_child |-> TRUE]

(* presenters/factory.py *)

\* a variant with the upper limits exclusive, to test the properties against
get_presenter_exclusive(student_age_) ==
    IF student_age_ < 5 THEN "PrePrimaryPresenter"
    ELSE IF student_age_ < 8 THEN "LowerPrimaryPresenter"
    ELSE IF student_age_ < 10 THEN "UpperPrimaryPresenter"
    ELSE "DetailedPresenter"

get_presenter(student_age_) ==
    IF student_age_ <= 5 THEN "PrePrimaryPresenter"
    ELSE IF student_age_ <= 8 THEN "LowerPrimaryPresenter"
    ELSE IF student_age_ <= 10 THEN "UpperPrimaryPresenter"
    ELSE "DetailedPresenter"

\* the age_group property of the presenter get_presenter returns
Presenter_age_group(student_age_) ==
    LET presenter == get_presenter(student_age_)
    IN  IF presenter = "PrePrimaryPresenter" THEN "pre_primary"
        ELSE IF presenter = "LowerPrimaryPresenter" THEN "lower_primary"
        ELSE IF presenter = "UpperPrimaryPresenter" THEN "upper_primary"
        ELSE DetailedPresenter_age_group(student_age_)

transform_for_age(raw_evaluation, student_age_, rng) ==
    LET presenter == get_presenter(student_age_)
    IN  IF presenter = "PrePrimaryPresenter"
        THEN PrePrimaryPresenter_transform(raw_evaluation, rng)
        ELSE IF presenter = "LowerPrimaryPresenter"
        THEN LowerPrimaryPresenter_transform(raw_evaluation)
        ELSE IF presenter = "UpperPrimaryPresenter"
        THEN UpperPrimaryPresenter_transform(raw_evaluation)
        ELSE DetailedPresenter_transform(student_age_, raw_evaluation)

----------------------------------------------------------------------------
(* The inputs the calls are given *)

ConfidentWords(texts) ==
    MkWords(texts, [i \in 1..(Len(texts) - 1) |-> 0], [i \in 1..Len(texts) |-> 75])

\* LowWordRun words below the threshold, all of confidence 0.5 but the one
\* at position k, of confidence 0.25
LowWordRunInputs ==
    {PlainWords([i \in 1..LowWordRun |-> IF i = k THEN 25 ELSE 50]) :
        k \in 1..LowWordRun}

ClarityInputs ==
    {PlainWords(c) : c \in Seqs(ConfidenceLevels, MaxClarityWords)}
    \cup LowWordRunInputs

PaceInputs == {ConfidentWords([i \in 1..n |-> "word"]) : n \in 0..MaxPaceWords}
\* the durations up to MaxDuration, and two at which the floats show: 3
\* words in 16 s are 11.25 words per minute, a tie of round(wpm, 1), and 9
\* words in 25 s are 21.6 words per minute, whose quotient by 40 times 100
\* is a float below 54
Durations == (0..MaxDuration) \cup {16, 25}

\* silences between words (seconds): none, at the long threshold, above it,
\* at the excessive threshold, above it
PauseGaps == {0, 2, 3, 4, 5}
PauseInputs ==
    {<<>>} \cup
    {MkWords([i \in 1..(Len(g) + 1) |-> "word"], g, [i \in 1..(Len(g) + 1) |-> 75]) :
        g \in Seqs(PauseGaps, MaxPauseWords - 1)}
\* lists of MaxPauseRun words with l silences of 3 s in front: with 5 words
\* the ratios are fifths, and 100 - (2 / 5 - 0.1) * 200 is a float below 40
PauseRunInputs ==
    {MkWords([i \in 1..MaxPauseRun |-> "word"],
             [i \in 1..(MaxPauseRun - 1) |-> IF i <= l THEN 3 ELSE 0],
             [i \in 1..MaxPauseRun |-> 75]) :
        l \in 0..(MaxPauseRun - 1)}

FillerTokens == {"Um,", "like", "the"}
FillerInputs == {ConfidentWords(t) : t \in Seqs(FillerTokens, MaxFillerWords)}

\* lists of MaxFillerRun - 1 and of MaxFillerRun words with f fillers in
\* front: with 9 words the penalised scores are not whole numbers, with 10
\* words and 2 fillers 100 - (0.2 - 0.05) * 300 is a float below 55
FillerRunInputs ==
    {ConfidentWords([i \in 1..n |-> IF i <= f THEN "um" ELSE "the"]) :
        n \in {MaxFillerRun - 1, MaxFillerRun}, f \in 0..(MaxFillerRun - 1)}

RECURSIVE GCD(_, _)
GCD(a, b) == IF b = 0 THEN a ELSE GCD(b, a % b)

\* the shortest list on which a filler ratio can equal the tolerance of the
\* bracket of age (hundredths), and the fillers that make that ratio
ToleranceLength(age) ==
    LET tolerance == AGE_GROUPS[get_detailed_age_group(age)].filler_tolerance
    IN  100 \div GCD(100, tolerance)
ToleranceFillers(age) ==
    (AGE_GROUPS[get_detailed_age_group(age)].filler_tolerance * ToleranceLength(age))
        \div 100

\* lists of that length with f fillers in front, f from one below the
\* tolerance to twice the tolerance
FillerBoundaryInputs(age) ==
    {ConfidentWords([i \in 1..ToleranceLength(age) |->
                        IF i <= f THEN "um" ELSE "the"]) :
        f \in (ToleranceFillers(age) - 1)..(2 * ToleranceFillers(age))}

RepetitionTokens == {"the", "go", "The."}
\* the list of n words that repeats pattern
Cycle(pattern, n) == [i \in 1..n |-> pattern[((i - 1) % Len(pattern)) + 1]]
RepetitionInputs ==
    {ConfidentWords(t) : t \in Seqs(RepetitionTokens, MaxRepetitionWords)} \cup
    {ConfidentWords(Cycle(pat, n)) :
        pat \in Seqs({"the", "go", "cat"}, 3) \ {<<>>},
        n \in (MaxCycleLen - 2)..MaxCycleLen} \cup
    \* one word said often enough for the penalty to pass 100
    {ConfidentWords(Cycle(<<"the">>, 2 * MaxCycleLen))}

RECURSIVE Pad(_)
Pad(k) == IF k <= 0 THEN "" ELSE IF k < 5 THEN "x" \o Pad(k - 1)
          ELSE "blah " \o Pad(k - 5)
\* at most one stretch of filler, so that a marker falls inside, across or
\* outside the first and last 200 characters
TranscriptInputs ==
    {""} \cup
    {Pad(p[1]) \o intro \o Pad(p[2]) \o concl \o Pad(p[3]) :
        p \in {<<0, 0, 0>>, <<PadLead, 0, 0>>, <<0, PadMid, 0>>, <<0, 0, PadTail>>},
        intro \in {"word ", "Hello ", "My name is Sam. "},
        concl \in {"done", "Thank you", "The End."}}
SegmentInputs == {<<>>, <<"s", "s">>, <<"s", "s", "s">>}

\* processors/audio_features.py classifies what it extracts
ExtractedLoudnessClass(rms_db_mean) ==
    IF rms_db_mean < AUDIO_METRICS_CONFIG.loudness.too_soft_threshold THEN "too_soft"
    ELSE IF rms_db_mean > AUDIO_METRICS_CONFIG.loudness.too_loud_threshold THEN "too_loud"
    ELSE "optimal"

ExtractedStaminaClass(dropoff, consistency) ==
    IF /\ dropoff >= AUDIO_METRICS_CONFIG.stamina.good_dropoff_ratio
       /\ consistency >= AUDIO_METRICS_CONFIG.stamina.consistency_threshold
    THEN "consistent"
    ELSE IF dropoff < AUDIO_METRICS_CONFIG.stamina.warning_dropoff_ratio THEN "fading"
    ELSE "inconsistent"

SilentLoudness == LoudnessFeatures(0, 0, -60, 0, <<>>, "optimal")
LoudnessInputs ==
    {SilentLoudness} \cup
    {LoudnessFeatures(500, 0, db, sd, <<>>, ExtractedLoudnessClass(db)) :
        db \in (-MaxQuietDb)..MaxLoudDb, sd \in {4, 9}}

PitchStep == 5
UnvoicedPitch == PitchFeatures(0, 0, <<0, 0>>, <<>>, 0, "insufficient_data")
PitchInputs ==
    {UnvoicedPitch, PitchFeatures(220, 30, <<150, 300>>, <<>>, 5, "expressive")} \cup
    {PitchFeatures(220, PitchStep * k, <<150, 300>>, <<>>, 50, c) :
        k \in 0..MaxPitchSteps, c \in {"monotone", "expressive", "erratic"}}

EnergySegments == <<500, 450, 400, 350>>
NoStamina == StaminaFeatures(<<>>, 8, 8, "consistent")
StaminaInputs ==
    {NoStamina} \cup
    {StaminaFeatures(EnergySegments, d, c, ExtractedStaminaClass(d, c)) :
        d \in 0..MaxDropoff, c \in 0..MaxConsistency}
AudioDurations == {14, 15, 30}

\* whole recordings for evaluate_all
ScenarioA ==
    ConfidentWords(<<"Hello", "my", "name", "is", "Sam", "um",
                     "I", "have", "two", "cats">>)
SpeechSamples ==
    {<<>>,
     ConfidentWords(<<"Hi">>),
     ScenarioA,
     MkWords(<<"Um,", "the", "the">>, <<3, 5>>, <<25, 50, 100>>),
     ConfidentWords(<<"the", "the", "the", "the", "the", "like">>)}
SpeechDurations == {0, 10}
TranscriptSamples ==
    {"", "Hello my name is Sam um I have two cats",
     "My topic is cats. Thank you"}
SegmentSamples == {<<>>, <<"s", "s", "s">>}
GoodLoudness == LoudnessFeatures(500, 0, -20, 4, <<>>, "optimal")
GoodPitch == PitchFeatures(220, 40, <<150, 300>>, <<>>, 50, "expressive")
GoodStamina == StaminaFeatures(EnergySegments, 8, 8, "consistent")
AudioSamples ==
    {NoAudio,
     AudioFeatures(SilentLoudness, UnvoicedPitch, NoStamina, 0, FALSE),
     AudioFeatures(GoodLoudness, GoodPitch, GoodStamina, 30, FALSE),
     AudioFeatures(SilentLoudness, UnvoicedPitch, NoStamina, 0, TRUE),
     AudioFeatures(GoodLoudness, GoodPitch, GoodStamina, 30, TRUE),
     AudioFeatures(LoudnessFeatures(100, 0, -40, 9, <<>>, "too_soft"),
                   PitchFeatures(200, 5, <<190, 210>>, <<>>, 50, "monotone"),
                   StaminaFeatures(EnergySegments, 2, 1, "fading"), 30, TRUE),
     AudioFeatures(LoudnessFeatures(3000, 0, -5, 9, <<>>, "too_loud"),
                   PitchFeatures(250, 150, <<100, 450>>, <<>>, 50, "erratic"),
                   StaminaFeatures(EnergySegments, 5, 1, "inconsistent"), 14, TRUE)}

\* metrics/evaluator.py, get_scores_dict: the overall score and the nine
\* metric scores of a report
MetricsEvaluator_get_scores_dict(results) ==
    [overall |-> results.overall,
     clarity |-> results.clarity.score,
     pace |-> results.pace.score,
     pause_management |-> results.pause_management.score,
     filler_reduction |-> results.filler_reduction.score,
     repetition_control |-> results.repetition_control.score,
     structure |-> results.structure.score,
     loudness |-> results.loudness.score,
     pitch_variation |-> results.pitch_variation.score,
     stamina |-> results.stamina.score]

\* a raw evaluation of the shape of tests/test_presenters.py: loudness l,
\* pitch variation p, every other score r, duration d (hundredths of a
\* second), wpm w (tenths)
RawEvaluation(l, p, r, d, w, suggestions) ==
    [metadata |->
        [student_name |-> "Test Student", student_age |-> 8,
         age_group |-> "lower_primary", duration_seconds |-> d],
     scores |->
        [overall |-> 10 * r, clarity |-> r, pace |-> r, pause_management |-> r,
         filler_reduction |-> r, repetition_control |-> r, structure |-> r,
         loudness |-> l, pitch_variation |-> p, stamina |-> r],
     detailed_analysis |->
        [clarity |-> [score |-> r, feedback |-> <<"Good clarity!">>],
         pace |-> [score |-> r, wpm |-> w, feedback |-> <<"Good pace">>],
         pauses |-> [score |-> r, feedback |-> <<"Good pauses">>],
         fillers |-> [score |-> r, feedback |-> <<"Few fillers">>],
         repetition |-> [score |-> r, feedback |-> <<"Good flow">>],
         structure |-> [score |-> r, feedback |-> <<"Needs intro">>],
         loudness |-> [score |-> l, classification |-> "optimal",
                       feedback |-> <<"Good volume">>],
         pitch_variation |-> [score |-> p, classification |-> "expressive",
                              feedback |-> <<"Nice expression">>],
         stamina |-> [score |-> r, classification |-> "consistent",
                      feedback |-> <<"Good energy">>]],
     improvement_suggestions |-> suggestions]

LoudnessLevels == {0, 20, 21, 31, 40, 70, 85}
PitchLevels == {0, 60, 80}
OtherLevels == {50, 80}
\* durations in hundredths of a second: 10.25 is a float and a tie of
\* round(duration, 1), 45.05 is a float below the tie
RawDurations == {0, 1000, 1025, 4505}
RawWpms == {400, 950}
SuggestionLists ==
    {<<>>,
     <<"Add a clear introduction", "Keep up the good pace", "Speak louder",
       "Slow down", "Pause less", "Practice more">>}

\* the scores given to get_badges_for_scores: every score at the base level
\* but one, which takes a level at either side of each threshold of the badge
\* tables; the tables of the three presenters that award badges, and the
\* whole table of scores (overall in tenths)
BadgeScoreKeys ==
    {"loudness", "pace", "pitch_variation", "clarity", "stamina", "filler",
     "structure", "overall"}
BadgeKeySets ==
    {{"loudness", "pitch_variation"},
     {"loudness", "pace", "pitch_variation", "clarity"},
     BadgeScoreKeys}
BadgeLevels == {30, 31, 59, 60, 69, 70, 74, 75, 79, 80, 84, 85, 89, 90}
BadgeBaseLevels == {60, 100}
BadgeScores ==
    {[k \in keys |->
        LET v == IF k = special THEN level ELSE base
        IN  IF k = "overall" THEN 10 * v ELSE v] :
        keys \in BadgeKeySets, special \in BadgeScoreKeys,
        level \in BadgeLevels, base \in BadgeBaseLevels}
\* durations in hundredths of a second; None is given as 0 (duration or 0)
BadgeDurations == {0, 999, 1000}
\* the five tiers and a name BADGES does not hold
BadgeAgeGroups == AgeGroupNames \cup {"adult"}

\* raw evaluations whose pause score alone is low
LowPauseLevels == {30}
LowPauseEvaluations ==
    {[RawEvaluation(l, 80, 80, 1000, 950, <<>>)
        EXCEPT !.scores.pause_management = q,
               !.detailed_analysis.pauses.score = q] :
        l \in {70, 85}, q \in LowPauseLevels}

\* the raw evaluations given to the presenters: of the shape of the tests,
\* and reports as evaluate_all returns them
RawEvaluations ==
    {RawEvaluation(l, p, r, d, w, s) :
        l \in LoudnessLevels, p \in PitchLevels, r \in OtherLevels,
        d \in RawDurations, w \in RawWpms, s \in SuggestionLists}
    \cup LowPauseEvaluations
    \cup
    {MetricsEvaluator_evaluate_all(10, ScenarioA,
        "Hello my name is Sam um I have two cats", <<"s", "s", "s">>, 10, af) :
        af \in {NoAudio, AudioFeatures(GoodLoudness, GoodPitch, GoodStamina, 30, TRUE)}}

\* raw evaluations that hold a whole result where a score is expected (with
\* its score, and without one) and a bare score where an analysis is
\* expected.  The detailed presenter takes them apart; the presenters of the
\* younger tiers compare every score they read with a number.
NestedEvaluations ==
    {[RawEvaluation(70, 80, 80, 1000, 950, s) EXCEPT
        !.scores.clarity = [score |-> c, feedback |-> <<"Good clarity!">>],
        !.scores.pace = [wpm |-> 950, feedback |-> <<"Good pace">>],
        !.detailed_analysis.structure = c] :
        c \in {55}, s \in {<<>>, <<"Add an introduction">>}}

\* the METRIC_WEIGHTS table with one weight of one row written differently
\* (hundredths): the row then sums to less or to more than 1.0
EditedClarityWeights == {0, 50}
EditedWeights ==
    {[METRIC_WEIGHTS EXCEPT ![g].clarity = w] :
        g \in AgeGroupNames, w \in EditedClarityWeights}

\* what the audio library returns for a recording, frame by frame: a frame
\* every hop_length samples, one more than the whole hops (librosa centres
\* the frames).  The rms of a frame is 0 (silence), 0.1 or 1.0 (full scale)
\* in single precision, and its level 20 * log10(rms): -20 dB, 0 dB, and for
\* silence the floor of -100 dB, or 80 dB below the loudest frame.  The pitch
\* of a frame is NaN or fmin = 65 Hz times a power of two, which are among
\* the frequencies librosa.pyin chooses from.
RmsTenth == FloatSingle(FloatRatio(10, 100))
RmsOne == FloatFromInt(1)
Hz130 == FloatFromInt(130)
Hz260 == FloatFromInt(260)
DbMinus20 == FloatOfInt(-20)
DbMinus80 == FloatOfInt(-80)
DbMinus100 == FloatOfInt(-100)

RECURSIVE Frames(_, _)
Frames(v, n) == IF n = 0 THEN <<>> ELSE <<v>> \o Frames(v, n - 1)

Recording(samples, rms, rms_db, f0) ==
    [samples |-> samples, rms |-> rms, rms_db |-> rms_db, f0 |-> f0]

\* a file without samples
EmptyRecording == Recording(0, <<>>, <<>>, <<>>)
\* two hops: three frames, fewer than n_segments and than MinVoicedFrames
ShortRecording ==
    Recording(2 * hop_length, Frames(RmsTenth, 3), Frames(DbMinus20, 3),
              Frames(Hz130, 3))
\* seven hops of an even voice that moves between two notes
SteadyRecording ==
    Recording(7 * hop_length, Frames(RmsTenth, 8), Frames(DbMinus20, 8),
              <<Hz130, Hz130, Hz260, Hz260, Hz130, Hz260, Hz130, Hz260>>)
\* full scale on one note
LoudRecording ==
    Recording(7 * hop_length, Frames(RmsOne, 8), Frames(FloatZero, 8),
              Frames(Hz130, 8))
\* a voice that stops half way: four voiced frames of eight
FadingRecording ==
    Recording(7 * hop_length, Frames(RmsOne, 4) \o Frames(FloatZero, 4),
              Frames(FloatZero, 4) \o Frames(DbMinus80, 4),
              Frames(Hz130, 4) \o Frames(FloatNaN, 4))
\* a voice that sets in after the first frame, two frames without pitch
RisingRecording ==
    Recording(7 * hop_length, <<FloatZero>> \o Frames(RmsOne, 7),
              <<DbMinus80>> \o Frames(FloatZero, 7),
              <<FloatNaN, Hz130, Hz130, Hz260, Hz260, Hz130, FloatNaN, Hz260>>)
\* silence
SilentRecording ==
    Recording(7 * hop_length, Frames(FloatZero, 8), Frames(DbMinus100, 8),
              Frames(FloatNaN, 8))

Recordings ==
    {EmptyRecording, ShortRecording, SteadyRecording, LoudRecording,
     FadingRecording, RisingRecording, SilentRecording}

\* which calls raise during one extract_features call: librosa.pyin freely,
\* and at most one of the other calls
CallFailures ==
    {f \in [ExtractorCalls -> CallOutcomes] :
        Cardinality({c \in ExtractorCalls \ {"pyin"} : f[c] # "returns"}) <= 1}

Extractions ==
    {[samples |-> r.samples, rms |-> r.rms, rms_db |-> r.rms_db, f0 |-> r.f0,
      raises |-> f, print_raises |-> p] :
        r \in Recordings, f \in CallFailures, p \in BOOLEAN}

\* results written by hand: clarity and pace share a string at the scores c
\* and p, pace and pause_management repetition_control is missing, and
\* the audio metrics carry the texts of a report without audio
HandResults(c, p) ==
    [clarity |-> [score |-> c, feedback |-> <<Fb("Speak up"), Fb("Slow down")>>],
     pace |-> [score |-> p, feedback |-> <<Fb("Slow down")>>],
     pause_management |-> [score |-> p, feedback |-> <<Fb("Keep going")>>],
     filler_reduction |-> [score |-> 10, feedback |-> <<Fb("Fewer fillers")>>],
     structure |-> [score |-> 90, feedback |-> <<Fb("Add an ending")>>],
     loudness |-> [score |-> 70,
                   feedback |-> <<Fb("Audio features not available")>>],
     pitch_variation |-> [score |-> 70,
                          feedback |-> <<Fb("Pitch variation was not analyzed")>>],
     stamina |-> [score |-> 55,
                  feedback |-> <<Fb("Energy analysis Not Available")>>]]
\* results whose metrics lack a score or a feedback list, and no results
SparseResults ==
    {[clarity |-> [feedback |-> <<Fb("Speak up")>>],
      pace |-> [score |-> 100],
      stamina |-> [score |-> 20, feedback |-> <<Fb("Keep your energy up")>>]],
     [overall |-> 0]}
SuggestionScores == {10, 40, 90}
\* the reports of evaluate_all the suggestions are generated from
SuggestionReports ==
    {MetricsEvaluator_evaluate_all(age, ws, "My topic is cats. Thank you",
                                   <<>>, MaxDuration, af) :
        age \in {4, 10, 15}, ws \in SpeechSamples, af \in AudioSamples}
SuggestionResults ==
    {HandResults(c, p) : c \in SuggestionScores, p \in SuggestionScores}
        \cup SparseResults \cup SuggestionReports

\* the ages at both sides of every presenter's limit, and one beyond each end
PresenterAges ==
    {MinStudentAge - AgeMargin, MinStudentAge, 5, 6, 8, 9, 10, 11, 13, 14,
     MaxStudentAge, MaxStudentAge + AgeMargin}

----------------------------------------------------------------------------
(* The calls *)

\* metrics/evaluator.py line 30: the age an evaluator built without one has
DefaultStudentAge == 10

\* the scorers, the evaluator and the presenter are built for an age.  The
\* configuration module is loaded with the shipped METRIC_WEIGHTS table or
\* with a table one weight of which was written differently; nothing in the
\* program writes the table afterwards, and evaluate_all reads it at every
\* call (evaluator.py line 108).  The calls other than evaluate_all do not
\* read the table, and are followed under the shipped table only.
Init ==
    /\ op = "none"
    /\ student_age \in Ages
    /\ words = <<>>
    /\ total_duration = 0
    /\ full_text = ""
    /\ segments = <<>>
    /\ audio_features = NoAudio
    /\ evaluation = "none"
    /\ called = {}
    /\ result = "none"
    /\ previous = "none"
    /\ metric_weights \in {METRIC_WEIGHTS} \cup EditedWeights
    /\ extraction = "none"
    /\ max_suggestions = 5
    /\ badge_call = "none"
    /\ jobs = <<>>
    /\ tasks = <<>>
    /\ writer = 0
    /\ response = [is_none |-> TRUE]

\* ClarityMetric(age).evaluate(words=ws)
ClarityEvaluate ==
    /\ op = "none"
    /\ metric_weights = METRIC_WEIGHTS
    /\ \E age \in {student_age}, ws \in ClarityInputs :
        /\ op' = "clarity"
        /\ student_age' = age
        /\ words' = ws
        /\ called' = {"clarity"}
        /\ result' = ClarityMetric_evaluate(age, ws)
    /\ UNCHANGED <<metric_weights, extraction, max_suggestions, badge_call>>
    /\ UNCHANGED api_vars
    /\ UNCHANGED <<total_duration, full_text, segments, audio_features,
                   evaluation, previous>>

\* PaceMetric(age).evaluate(words=ws, total_duration=d)
PaceEvaluate ==
    /\ op = "none"
    /\ metric_weights = METRIC_WEIGHTS
    /\ \E age \in {student_age}, ws \in PaceInputs, d \in Durations :
        /\ op' = "pace"
        /\ student_age' = age
        /\ words' = ws
        /\ total_duration' = d
        /\ called' = {"pace"}
        /\ result' = PaceMetric_evaluate(age, ws, d)
    /\ UNCHANGED <<metric_weights, extraction, max_suggestions, badge_call>>
    /\ UNCHANGED api_vars
    /\ UNCHANGED <<full_text, segments, audio_features,
                   evaluation, previous>>

\* PauseMetric(age).evaluate(words=ws)
PauseEvaluate ==
    /\ op = "none"
    /\ metric_weights = METRIC_WEIGHTS
    /\ \E age \in {student_age}, ws \in PauseInputs \cup PauseRunInputs :
        /\ op' = "pause"
        /\ student_age' = age
        /\ words' = ws
        /\ called' = {"pause"}
        /\ result' = PauseMetric_evaluate(age, ws)
    /\ UNCHANGED <<metric_weights, extraction, max_suggestions, badge_call>>
    /\ UNCHANGED api_vars
    /\ UNCHANGED <<total_duration, full_text, segments, audio_features,
                   evaluation, previous>>

\* FillerMetric(age).evaluate(words=ws)
FillerEvaluate ==
    /\ op = "none"
    /\ metric_weights = METRIC_WEIGHTS
    /\ \E age \in {student_age} : \E ws \in FillerInputs \cup FillerRunInputs \cup FillerBoundaryInputs(age) :
        /\ op' = "filler"
        /\ student_age' = age
        /\ words' = ws
        /\ called' = {"filler"}
        /\ result' = FillerMetric_evaluate(age, ws)
    /\ UNCHANGED <<metric_weights, extraction, max_suggestions, badge_call>>
    /\ UNCHANGED api_vars
    /\ UNCHANGED <<total_duration, full_text, segments, audio_features,
                   evaluation, previous>>

\* RepetitionMetric(age).evaluate(words=ws)
RepetitionEvaluate ==
    /\ op = "none"
    /\ metric_weights = METRIC_WEIGHTS
    /\ \E age \in {student_age}, ws \in RepetitionInputs :
        /\ op' = "repetition"
        /\ student_age' = age
        /\ words' = ws
        /\ called' = {"repetition"}
        /\ result' = RepetitionMetric_evaluate(age, ws)
    /\ UNCHANGED <<metric_weights, extraction, max_suggestions, badge_call>>
    /\ UNCHANGED api_vars
    /\ UNCHANGED <<total_duration, full_text, segments, audio_features,
                   evaluation, previous>>

\* StructureMetric(age).evaluate(full_text=text, segments=segs)
StructureEvaluate ==
    /\ op = "none"
    /\ metric_weights = METRIC_WEIGHTS
    /\ \E age \in {student_age}, text \in TranscriptInputs, segs \in SegmentInputs :
        /\ op' = "structure"
        /\ student_age' = age
        /\ full_text' = text
        /\ segments' = segs
        /\ called' = {"structure"}
        /\ result' = StructureMetric_evaluate(age, text, segs)
    /\ UNCHANGED <<metric_weights, extraction, max_suggestions, badge_call>>
    /\ UNCHANGED api_vars
    /\ UNCHANGED <<words, total_duration, audio_features,
                   evaluation, previous>>

\* LoudnessMetric(age).evaluate(audio_features=af)
LoudnessEvaluate ==
    /\ op = "none"
    /\ metric_weights = METRIC_WEIGHTS
    /\ \E age \in {student_age}, l \in LoudnessInputs :
        LET af == AudioFeatures(l, UnvoicedPitch, NoStamina, 30, TRUE)
        IN  /\ op' = "loudness"
            /\ student_age' = age
            /\ audio_features' = af
            /\ called' = {"loudness"}
            /\ result' = LoudnessMetric_evaluate(age, af)
    /\ UNCHANGED <<metric_weights, extraction, max_suggestions, badge_call>>
    /\ UNCHANGED api_vars
    /\ UNCHANGED <<words, total_duration, full_text, segments,
                   evaluation, previous>>

\* PitchVariationMetric(age).evaluate(audio_features=af)
PitchVariationEvaluate ==
    /\ op = "none"
    /\ metric_weights = METRIC_WEIGHTS
    /\ \E age \in {student_age}, p \in PitchInputs :
        LET af == AudioFeatures(SilentLoudness, p, NoStamina, 30, TRUE)
        IN  /\ op' = "pitch_variation"
            /\ student_age' = age
            /\ audio_features' = af
            /\ called' = {"pitch_variation"}
            /\ result' = PitchVariationMetric_evaluate(age, af)
    /\ UNCHANGED <<metric_weights, extraction, max_suggestions, badge_call>>
    /\ UNCHANGED api_vars
    /\ UNCHANGED <<words, total_duration, full_text, segments,
                   evaluation, previous>>

\* StaminaMetric(age).evaluate(audio_features=af)
StaminaEvaluate ==
    /\ op = "none"
    /\ metric_weights = METRIC_WEIGHTS
    /\ \E age \in {student_age}, st \in StaminaInputs, d \in AudioDurations :
        LET af == AudioFeatures(SilentLoudness, UnvoicedPitch, st, d, TRUE)
        IN  /\ op' = "stamina"
            /\ student_age' = age
            /\ audio_features' = af
            /\ called' = {"stamina"}
            /\ result' = StaminaMetric_evaluate(age, af)
    /\ UNCHANGED <<metric_weights, extraction, max_suggestions, badge_call>>
    /\ UNCHANGED api_vars
    /\ UNCHANGED <<words, total_duration, full_text, segments,
                   evaluation, previous>>

\* MetricsEvaluator(age).evaluate_all(ws, text, segs, d, af)
EvaluateAll ==
    /\ op = "none"
    /\ metric_weights = METRIC_WEIGHTS
    /\ \E age \in {student_age}, ws \in SpeechSamples, text \in TranscriptSamples,
          segs \in SegmentSamples, d \in SpeechDurations, af \in AudioSamples :
        /\ op' = "evaluate_all"
        /\ student_age' = age
        /\ words' = ws
        /\ full_text' = text
        /\ segments' = segs
        /\ total_duration' = d
        /\ audio_features' = af
        /\ called' = MetricsEvaluator_calls(af)
        /\ result' = MetricsEvaluator_evaluate_all(age, ws, text, segs, d, af)
    /\ UNCHANGED <<metric_weights, extraction, max_suggestions, badge_call>>
    /\ UNCHANGED api_vars
    /\ UNCHANGED <<previous, evaluation>>

\* the same evaluate_all call once more
EvaluateAllAgain ==
    /\ op = "evaluate_all"
    /\ op' = "evaluate_all_again"
    /\ previous' = result
    /\ called' = MetricsEvaluator_calls(audio_features)
    /\ result' = MetricsEvaluator_evaluate_all(student_age, words, full_text,
                     segments, total_duration, audio_features)
    /\ UNCHANGED <<metric_weights, extraction, max_suggestions, badge_call>>
    /\ UNCHANGED api_vars
    /\ UNCHANGED <<student_age, words, total_duration, full_text, segments,
                   audio_features, evaluation>>

\* the module holds an edited table: MetricsEvaluator(age) is constructed
\* and evaluate_all(ws, text, <<>>, d, af) called on a recording of ten
\* seconds
EvaluateAllEditedWeights ==
    /\ op = "none"
    /\ metric_weights \in EditedWeights
    /\ \E age \in {student_age}, ws \in {<<>>, ScenarioA},
          text \in {"Hello my name is Sam um I have two cats"},
          d \in {MaxDuration},
          af \in {NoAudio,
                  AudioFeatures(GoodLoudness, GoodPitch, GoodStamina, 30, TRUE)} :
        /\ op' = "evaluate_all_edited_weights"
        /\ student_age' = age
        /\ words' = ws
        /\ full_text' = text
        /\ segments' = <<>>
        /\ total_duration' = d
        /\ audio_features' = af
        /\ called' = MetricsEvaluator_calls(af)
        /\ result' = MetricsEvaluator_report_with(metric_weights, age,
                          MetricsEvaluator_results(age, ws, text, <<>>, d, af))
    /\ UNCHANGED <<previous, evaluation, metric_weights, extraction,
                   max_suggestions, badge_call>>
    /\ UNCHANGED api_vars

\* the same evaluate_all call once more, under the edited table
EvaluateAllEditedWeightsAgain ==
    /\ op = "evaluate_all_edited_weights"
    /\ op' = "evaluate_all_edited_weights_again"
    /\ previous' = result
    /\ called' = MetricsEvaluator_calls(audio_features)
    /\ result' = MetricsEvaluator_report_with(metric_weights, student_age,
                     MetricsEvaluator_results(student_age, words, full_text,
                         segments, total_duration, audio_features))
    /\ UNCHANGED <<metric_weights, extraction, max_suggestions, badge_call>>
    /\ UNCHANGED api_vars
    /\ UNCHANGED <<student_age, words, total_duration, full_text, segments,
                   audio_features, evaluation>>

\* AudioFeatureExtractor().extract_features(audio_path), the audio library
\* behaving as env says; the call takes no age
ExtractFeatures ==
    /\ op = "none"
    /\ metric_weights = METRIC_WEIGHTS
    /\ student_age = DefaultStudentAge
    /\ \E env \in Extractions :
        /\ op' = "extract_features"
        /\ extraction' = env
        /\ result' = AudioFeatureExtractor_extract_features(env)
    /\ UNCHANGED <<student_age, words, total_duration, full_text, segments,
                   audio_features, evaluation, called, previous,
                   metric_weights, max_suggestions, badge_call>>
    /\ UNCHANGED api_vars

\* MetricsEvaluator().generate_improvement_suggestions(results, max); the
\* method does not read the age
GenerateImprovementSuggestions ==
    /\ op = "none"
    /\ metric_weights = METRIC_WEIGHTS
    /\ student_age = DefaultStudentAge
    /\ \E results \in SuggestionResults, max \in 0..MaxSuggestions :
        /\ op' = "generate_improvement_suggestions"
        /\ evaluation' = results
        /\ max_suggestions' = max
        /\ result' = MetricsEvaluator_generate_improvement_suggestions(results, max)
    /\ UNCHANGED <<student_age, words, total_duration, full_text, segments,
                   audio_features, called, previous, metric_weights,
                   extraction, badge_call>>
    /\ UNCHANGED api_vars

\* get_badges_for_scores(scores, age_group, duration); the age group is an
\* argument of the call
GetBadgesForScores ==
    /\ op = "none"
    /\ metric_weights = METRIC_WEIGHTS
    /\ student_age = DefaultStudentAge
    /\ \E scores \in BadgeScores, group \in BadgeAgeGroups,
          duration \in BadgeDurations :
        /\ op' = "get_badges_for_scores"
        /\ badge_call' = [scores |-> scores, age_group |-> group,
                          duration |-> duration]
        /\ result' = get_badges_for_scores(scores, group, duration)
    /\ UNCHANGED <<student_age, words, total_duration, full_text, segments,
                   audio_features, evaluation, called, previous,
                   metric_weights, extraction, max_suggestions>>
    /\ UNCHANGED api_vars

\* transform_for_age(raw, age); rng is what random.choice draws, if called
TransformForAge ==
    /\ op = "none"
    /\ metric_weights = METRIC_WEIGHTS
    /\ \E age \in PresenterAges \cap {student_age}, rng \in RandomDraws :
        /\ op' = "transform_for_age"
        /\ student_age' = age
        /\ \/ \E raw \in RawEvaluations : evaluation' = raw
           \/ /\ get_presenter(age) = "DetailedPresenter"
              /\ \E raw \in NestedEvaluations : evaluation' = raw
        /\ result' = transform_for_age(evaluation', age, rng)
    /\ UNCHANGED <<metric_weights, extraction, max_suggestions, badge_call>>
    /\ UNCHANGED api_vars
    /\ UNCHANGED <<words, total_duration, full_text, segments, audio_features,
                   called, previous>>

\* the same transform_for_age call once more, with a draw of its own
TransformForAgeAgain ==
    /\ op = "transform_for_age"
    /\ op' = "transform_for_age_again"
    /\ previous' = result
    /\ \E rng \in RandomDraws :
        result' = transform_for_age(evaluation, student_age, rng)
    /\ UNCHANGED <<metric_weights, extraction, max_suggestions, badge_call>>
    /\ UNCHANGED api_vars
    /\ UNCHANGED <<student_age, words, total_duration, full_text, segments,
                   audio_features, evaluation, called>>

\* the caller drops the result; the scorers stay as they were built and
\* hold nothing else between calls, and the module keeps its table
Return ==
    /\ op # "none"
    /\ op' = "none"
    /\ student_age' = student_age
    /\ words' = <<>>
    /\ total_duration' = 0
    /\ full_text' = ""
    /\ segments' = <<>>
    /\ audio_features' = NoAudio
    /\ evaluation' = "none"
    /\ called' = {}
    /\ result' = "none"
    /\ previous' = "none"
    /\ metric_weights' = metric_weights
    /\ extraction' = "none"
    /\ max_suggestions' = 5
    /\ badge_call' = "none"
    /\ UNCHANGED api_vars

Next ==
    \/ ClarityEvaluate
    \/ PaceEvaluate
    \/ PauseEvaluate
    \/ FillerEvaluate
    \/ RepetitionEvaluate
    \/ StructureEvaluate
    \/ LoudnessEvaluate
    \/ PitchVariationEvaluate
    \/ StaminaEvaluate
    \/ ExtractFeatures
    \/ GenerateImprovementSuggestions
    \/ GetBadgesForScores
    \/ TransformForAge
    \/ TransformForAgeAgain
    \/ EvaluateAll
    \/ EvaluateAllAgain
    \/ EvaluateAllEditedWeights
    \/ EvaluateAllEditedWeightsAgain
    \/ Return

Spec == Init /\ [][Next]_vars

----------------------------------------------------------------------------
(***************************************************************************)
(* The job API of src/Logic/api.py.                                        *)
(*                                                                         *)
(* The server keeps one table, jobs, from job id to job record.  An        *)
(* endpoint that accepts a request adds a record and queues one background *)
(* task, process_evaluation_task, for it; the task walks the record        *)
(* through its statuses; GET /jobs/{job_id} reads the record.              *)
(*                                                                         *)
(* A job id is a fresh uuid4 string; the model names the k-th job created  *)
(* k.  The timestamps created_at and updated_at (datetime.now()) are left  *)
(* out of the records.  An Optional[str] is None or Str(s).  A task is     *)
(* modelled statement by statement, so that every other task and every     *)
(* poll can run between any two of its writes; the event loop switches     *)
(* only at an await, which is a subset of these interleavings.             *)
(***************************************************************************)

Str(s) == [str |-> s]

\* class JobStatus
JobStatus == {"pending", "preprocessing", "extracting_features",
              "transcribing", "analyzing", "completed", "failed"}

\* AudioProcessor.SUPPORTED_FORMATS
AudioProcessor_SUPPORTED_FORMATS ==
    {".mp3", ".wav", ".m4a", ".ogg", ".flac", ".webm"}

\* AudioProcessor().is_supported_format(file_path); a path is modelled by
\* its suffix in lower case
AudioProcessor_is_supported_format(file_path) ==
    file_path \in AudioProcessor_SUPPORTED_FORMATS

\* d.get(key, default) of a dict d
DictGet(d, key, default) == IF key \in DOMAIN d THEN d[key] ELSE default

\* PublicSpeakingEvaluator._error_response(message), without its timestamp
PublicSpeakingEvaluator_error_response(message) ==
    [error |-> TRUE, message |-> message]

\* the report PublicSpeakingEvaluator.evaluate returns, by its keys: it has
\* neither "error" nor "raw_evaluation" nor "child_presentation"
PublicSpeakingEvaluator_report ==
    [metadata |-> "metadata", transcript |-> "transcript",
     scores |-> "scores", detailed_analysis |-> "detailed_analysis",
     improvement_suggestions |-> "improvement_suggestions"]

\* what evaluator.evaluate(...) can do in process_evaluation_task: return a
\* report, return an error response (preprocessing or transcription failed,
\* both caught inside evaluate), or raise (the scoring is outside its try)
EvaluatorOutcomes ==
    { Returned(PublicSpeakingEvaluator_report),
      Returned(PublicSpeakingEvaluator_error_response("Audio preprocessing failed")),
      Returned(PublicSpeakingEvaluator_error_response("Transcription failed")),
      Raised }

\* _get_status_message(job_status)
get_status_message(job_status) ==
    CASE job_status = "pending"             -> "Waiting in queue..."
      [] job_status = "preprocessing"       -> "Preparing your audio..."
      [] job_status = "extracting_features" -> "Analyzing your voice..."
      [] job_status = "transcribing"        -> "Listening to your speech..."
      [] job_status = "analyzing"           -> "Analyzing your performance..."
      [] job_status = "completed"           -> "Evaluation complete!"
      [] job_status = "failed"              -> "Evaluation failed"
      [] OTHER                              -> "Unknown status"

\* most jobs created in one run of the server
MaxJobs == 2

\* suffixes of the files sent to the endpoints
FileSuffixes == {".wav", ".txt"}

\* callback_url of a request
CallbackUrls == {None, Str("http://hook")}

\* the record both endpoints store for a new job
NewJob(callback_url) ==
    [status |-> "pending", progress |-> "Job queued",
     request |-> [callback_url |-> callback_url],
     raw_evaluation |-> None, child_presentation |-> None, error |-> None]

\* the arguments and the position of a queued process_evaluation_task, and
\* whether the file at audio_path is on disk
NewTask(audio_path, callback_url, cleanup_file) ==
    [pc |-> "preprocessing", audio_path |-> audio_path,
     callback_url |-> callback_url, cleanup_file |-> cleanup_file,
     file_exists |-> TRUE, result |-> None, error_msg |-> None]

\* POST /evaluate: evaluate_speech(audio_file, ..., callback_url); saved is
\* whether writing the upload to disk succeeded
EvaluateSpeech ==
    /\ \E suffix \in FileSuffixes, saved \in BOOLEAN, callback_url \in CallbackUrls :
        IF suffix \notin AudioProcessor_SUPPORTED_FORMATS
        THEN /\ response' = [status_code |-> 400]
             /\ UNCHANGED <<jobs, tasks>>
        ELSE IF ~saved
        THEN /\ response' = [status_code |-> 500]
             /\ UNCHANGED <<jobs, tasks>>
        ELSE /\ Len(jobs) < MaxJobs
             /\ jobs' = Append(jobs, NewJob(callback_url))
             /\ tasks' = Append(tasks, NewTask(suffix, callback_url, TRUE))
             /\ response' = [status_code |-> 202, job_id |-> Len(jobs) + 1,
                             status |-> "pending"]
    /\ writer' = 0
    /\ UNCHANGED evaluator_vars

\* POST /evaluate/path: evaluate_speech_from_path(request); exists is
\* whether os.path.exists(request.audio_path)
EvaluateSpeechFromPath ==
    /\ \E suffix \in FileSuffixes, exists \in BOOLEAN, callback_url \in CallbackUrls :
        IF ~exists \/ suffix \notin AudioProcessor_SUPPORTED_FORMATS
        THEN /\ response' = [status_code |-> 400]
             /\ UNCHANGED <<jobs, tasks>>
        ELSE /\ Len(jobs) < MaxJobs
             /\ jobs' = Append(jobs, NewJob(callback_url))
             /\ tasks' = Append(tasks, NewTask(suffix, callback_url, FALSE))
             /\ response' = [status_code |-> 202, job_id |-> Len(jobs) + 1,
                             status |-> "pending"]
    /\ writer' = 0
    /\ UNCHANGED evaluator_vars

\* GET /jobs/{job_id}: get_job_status(job_id)
GetJobStatus ==
    /\ \E job_id \in 1..MaxJobs :
        response' =
            IF job_id \notin DOMAIN jobs
            THEN [status_code |-> 404]
            ELSE LET job == jobs[job_id] IN
                 [status_code |-> 200, job_id |-> job_id,
                  status |-> job.status,
                  message |-> get_status_message(job.status),
                  progress |-> job.progress,
                  raw_evaluation |-> job.raw_evaluation,
                  child_presentation |-> job.child_presentation,
                  error |-> job.error]
    /\ writer' = 0
    /\ UNCHANGED <<jobs, tasks>>
    /\ UNCHANGED evaluator_vars

\* a step of the task of job_id: the record of job_id and the task change as
\* given, nothing else does
TaskStep(job_id, job, task) ==
    /\ jobs' = [jobs EXCEPT ![job_id] = job]
    /\ tasks' = [tasks EXCEPT ![job_id] = task]
    /\ writer' = job_id
    /\ response' = None
    /\ UNCHANGED evaluator_vars

\* jobs[job_id]["status"] = JobStatus.PREPROCESSING and its progress
TaskPreprocessing(job_id) ==
    /\ tasks[job_id].pc = "preprocessing"
    /\ TaskStep(job_id,
                [jobs[job_id] EXCEPT !.status = "preprocessing",
                                     !.progress = "Preparing your audio..."],
                [tasks[job_id] EXCEPT !.pc = "validate"])

\* if not audio_processor.is_supported_format(audio_path): raise ValueError
TaskValidateFormat(job_id) ==
    /\ tasks[job_id].pc = "validate"
    /\ TaskStep(job_id, jobs[job_id],
                IF AudioProcessor_is_supported_format(tasks[job_id].audio_path)
                THEN [tasks[job_id] EXCEPT !.pc = "extracting_features"]
                ELSE [tasks[job_id] EXCEPT
                         !.pc = "except",
                         !.error_msg = Str("Unsupported audio format")])

\* jobs[job_id]["status"] = JobStatus.EXTRACTING_FEATURES and its progress
TaskExtractingFeatures(job_id) ==
    /\ tasks[job_id].pc = "extracting_features"
    /\ TaskStep(job_id,
                [jobs[job_id] EXCEPT !.status = "extracting_features",
                                     !.progress = "Analyzing your voice..."],
                [tasks[job_id] EXCEPT !.pc = "transcribing"])

\* jobs[job_id]["status"] = JobStatus.TRANSCRIBING and its progress
TaskTranscribing(job_id) ==
    /\ tasks[job_id].pc = "transcribing"
    /\ TaskStep(job_id,
                [jobs[job_id] EXCEPT !.status = "transcribing",
                                     !.progress = "Listening to your speech..."],
                [tasks[job_id] EXCEPT !.pc = "evaluate"])

\* result = evaluator.evaluate(...)
TaskEvaluate(job_id) ==
    /\ tasks[job_id].pc = "evaluate"
    /\ \E outcome \in EvaluatorOutcomes :
        TaskStep(job_id, jobs[job_id],
                 IF outcome.raised
                 THEN [tasks[job_id] EXCEPT
                          !.pc = "except",
                          !.error_msg = Str("evaluate raised")]
                 ELSE [tasks[job_id] EXCEPT !.pc = "analyzing",
                                            !.result = outcome.value])

\* jobs[job_id]["status"] = JobStatus.ANALYZING and its progress
TaskAnalyzing(job_id) ==
    /\ tasks[job_id].pc = "analyzing"
    /\ TaskStep(job_id,
                [jobs[job_id] EXCEPT !.status = "analyzing",
                                     !.progress = "Analyzing your performance..."],
                [tasks[job_id] EXCEPT !.pc = "check"])

\* if result.get("error", False): raise Exception(result.get("message", ...))
TaskCheckError(job_id) ==
    /\ tasks[job_id].pc = "check"
    /\ LET res == tasks[job_id].result IN
       TaskStep(job_id, jobs[job_id],
                IF DictGet(res, "error", FALSE)
                THEN [tasks[job_id] EXCEPT
                         !.pc = "except",
                         !.error_msg = Str(DictGet(res, "message", "Evaluation failed"))]
                ELSE [tasks[job_id] EXCEPT !.pc = "completed"])

\* status COMPLETED, progress, raw_evaluation and child_presentation; then
\* if callback_url: the webhook payload is built
TaskCompleted(job_id) ==
    /\ tasks[job_id].pc = "completed"
    /\ LET res == tasks[job_id].result IN
       TaskStep(job_id,
                [jobs[job_id] EXCEPT
                    !.status = "completed",
                    !.progress = "Evaluation complete!",
                    !.raw_evaluation = DictGet(res, "raw_evaluation", None),
                    !.child_presentation = DictGet(res, "child_presentation", None)],
                [tasks[job_id] EXCEPT
                    !.pc = IF tasks[job_id].callback_url # None
                           THEN "webhook" ELSE "finally"])

\* a variant that lets a failure of the webhook leave its try
TaskSendWebhook_uncaught(job_id, delivered) ==
    /\ tasks[job_id].pc = "webhook"
    /\ TaskStep(job_id, jobs[job_id],
                IF delivered
                THEN [tasks[job_id] EXCEPT !.pc = "finally"]
                ELSE [tasks[job_id] EXCEPT !.pc = "except",
                                           !.error_msg = Str("webhook failed")])

\* await client.post(callback_url, ...) inside its own try/except: delivered
\* or not, the task goes on to finally
TaskSendWebhook(job_id, delivered) ==
    /\ tasks[job_id].pc = "webhook"
    /\ TaskStep(job_id, jobs[job_id], [tasks[job_id] EXCEPT !.pc = "finally"])

\* except Exception as e: status FAILED and error
TaskFailed(job_id) ==
    /\ tasks[job_id].pc = "except"
    /\ TaskStep(job_id,
                [jobs[job_id] EXCEPT !.status = "failed",
                                     !.error = tasks[job_id].error_msg],
                [tasks[job_id] EXCEPT
                    !.pc = IF tasks[job_id].callback_url # None
                           THEN "failure_webhook" ELSE "finally"])

\* the failure webhook, inside its own try/except
TaskSendFailureWebhook(job_id, delivered) ==
    /\ tasks[job_id].pc = "failure_webhook"
    /\ TaskStep(job_id, jobs[job_id], [tasks[job_id] EXCEPT !.pc = "finally"])

\* finally: if cleanup_file and os.path.exists(audio_path): os.remove;
\* removed is whether os.remove succeeded
TaskCleanup(job_id, removed) ==
    /\ tasks[job_id].pc = "finally"
    /\ TaskStep(job_id, jobs[job_id],
                [tasks[job_id] EXCEPT
                    !.pc = "done",
                    !.file_exists =
                        IF tasks[job_id].cleanup_file /\ tasks[job_id].file_exists
                        THEN ~removed ELSE tasks[job_id].file_exists])

\* the state of the server after startup: no job
ApiInit ==
    Init /\ student_age = DefaultStudentAge /\ metric_weights = METRIC_WEIGHTS

ApiNext ==
    \/ EvaluateSpeech
    \/ EvaluateSpeechFromPath
    \/ GetJobStatus
    \/ \E job_id \in DOMAIN tasks : TaskPreprocessing(job_id)
    \/ \E job_id \in DOMAIN tasks : TaskValidateFormat(job_id)
    \/ \E job_id \in DOMAIN tasks : TaskExtractingFeatures(job_id)
    \/ \E job_id \in DOMAIN tasks : TaskTranscribing(job_id)
    \/ \E job_id \in DOMAIN tasks : TaskEvaluate(job_id)
    \/ \E job_id \in DOMAIN tasks : TaskAnalyzing(job_id)
    \/ \E job_id \in DOMAIN tasks : TaskCheckError(job_id)
    \/ \E job_id \in DOMAIN tasks : TaskCompleted(job_id)
    \/ \E job_id \in DOMAIN tasks, delivered \in BOOLEAN :
           TaskSendWebhook(job_id, delivered)
    \/ \E job_id \in DOMAIN tasks : TaskFailed(job_id)
    \/ \E job_id \in DOMAIN tasks, delivered \in BOOLEAN :
           TaskSendFailureWebhook(job_id, delivered)
    \/ \E job_id \in DOMAIN tasks, removed \in BOOLEAN :
           TaskCleanup(job_id, removed)

ApiSpec == ApiInit /\ [][ApiNext]_vars

----------------------------------------------------------------------------
(* Properties *)

ScorerOps == TranscriptScorers \cup AudioScorers
EvaluateAllOps == {"evaluate_all", "evaluate_all_again"}
TranscriptKeys ==
    {"clarity", "pace", "pause_management", "filler_reduction",
     "repetition_control", "structure"}
AudioKeys == {"loudness", "pitch_variation", "stamina"}
ResultKeys == TranscriptKeys \cup AudioKeys

\* C1: every metric result, of a single scorer or of evaluate_all, has an
\* integer score with 0 <= score <= 100, whatever the age and the input
\* (no words, zero duration, no transcript, missing, invalid or all-zero
\* audio), also after the age boosts of the stamina and pitch scorers.
C1_ScoresInRange ==
    /\ op \in ScorerOps => result.score \in 0..100
    /\ op \in EvaluateAllOps => \A k \in ResultKeys : result[k].score \in 0..100

\* evaluate_all on nothing but weak audio, at age 4: both boosts applied
C1_Witness ==
    /\ op = "evaluate_all"
    /\ student_age = 4
    /\ words = <<>> /\ total_duration = 0 /\ full_text = ""
    /\ result.pitch_variation.classification = "monotone"
    /\ result.pitch_variation.score = 70
    /\ result.stamina.classification = "fading"
    /\ result.stamina.score = 55

\* C2: for each of the five age groups, the group of the student at hand
\* among them, the METRIC_WEIGHTS row holds exactly the nine metric weights,
\* each weight is non-negative, and the nine sum to 1.0 (100 hundredths).
C2_WeightRowsSumToOne ==
    /\ DOMAIN METRIC_WEIGHTS = AgeGroupNames
    /\ Len(MetricKeys) = 9
    /\ \A g \in AgeGroupNames \cup {get_detailed_age_group(student_age)} :
        /\ g \in DOMAIN METRIC_WEIGHTS
        /\ DOMAIN METRIC_WEIGHTS[g] = {MetricKeys[i] : i \in 1..Len(MetricKeys)}
        /\ \A i \in 1..Len(MetricKeys) : METRIC_WEIGHTS[g][MetricKeys[i]] >= 0
        /\ SumSeq([i \in 1..Len(MetricKeys) |-> METRIC_WEIGHTS[g][MetricKeys[i]]]) = 100

\* a report whose overall score used the secondary row
C2_Witness ==
    /\ op = "evaluate_all"
    /\ student_age = 16
    /\ words = ScenarioA
    /\ result.overall > 0

\* the bracket the age ranges 3-5, 6-8, 9-10, 11-13, 14-18 give an age
BracketOfAge(age) ==
    IF age \in 3..5 THEN "pre_primary"
    ELSE IF age \in 6..8 THEN "lower_primary"
    ELSE IF age \in 9..10 THEN "upper_primary"
    ELSE IF age \in 11..13 THEN "middle"
    ELSE "secondary"

\* C3: get_detailed_age_group maps every age 3..18 to exactly one group:
\* 3-5 pre_primary, 6-8 lower_primary, 9-10 upper_primary, 11-13 middle,
\* 14-18 secondary (5, 8, 10 and 13 in the lower bucket), and the age lies
\* between the group's min_age and max_age; a scorer that looks the age up
\* works with the parameters of that group.
C3_AgeGroupOfAge ==
    /\ \A age \in MinStudentAge..MaxStudentAge :
        LET g == get_detailed_age_group(age)
        IN  /\ g = BracketOfAge(age)
            /\ AGE_GROUPS[g].min_age <= age /\ age <= AGE_GROUPS[g].max_age
    /\ (/\ op = "pace"
        /\ student_age \in MinStudentAge..MaxStudentAge
        /\ words # <<>> /\ total_duration > 0)
        => result.ideal_range = AGE_GROUPS[BracketOfAge(student_age)].wpm_range

\* the pace scorer at the boundary age 13 used the band of the middle group
C3_Witness ==
    /\ op = "pace"
    /\ student_age = 13
    /\ words # <<>> /\ total_duration > 0
    /\ result.ideal_range = AGE_GROUPS["middle"].wpm_range

\* the nine scores of a report times the weights of row w, in hundredths
WeightedScores(r, w) ==
    r.clarity.score * w.clarity + r.pace.score * w.pace +
    r.pause_management.score * w.pause + r.filler_reduction.score * w.filler +
    r.repetition_control.score * w.repetition + r.structure.score * w.structure +
    r.loudness.score * w.loudness + r.pitch_variation.score * w.pitch_variation +
    r.stamina.score * w.stamina

\* tenths is hundredths / 100 rounded to one decimal place
IsRoundedToOneDecimal(tenths, hundredths) ==
    /\ 10 * tenths - hundredths <= 5
    /\ hundredths - 10 * tenths <= 5

\* C4: the overall score of evaluate_all is the sum over the nine metrics of
\* score times weight, with the weights of the METRIC_WEIGHTS row of
\* get_detailed_age_group(student_age), rounded to one decimal place; no
\* other row and no renormalisation.
C4_OverallIsWeightedSum ==
    op \in EvaluateAllOps =>
        IsRoundedToOneDecimal(result.overall,
            WeightedScores(result, METRIC_WEIGHTS[get_detailed_age_group(student_age)]))

\* Scenario A with weak audio at age 10: 72.1
C4_Witness ==
    /\ op = "evaluate_all"
    /\ student_age = 10
    /\ words = ScenarioA /\ total_duration = 10
    /\ result.loudness.score = 33
    /\ result.structure.score = 80
    /\ result.overall = 721

\* the report of the same call with valid audio features
WithValidAudio ==
    MetricsEvaluator_results(student_age, words, full_text, segments,
        total_duration,
        AudioFeatures(GoodLoudness, GoodPitch, GoodStamina, 30, TRUE))

\* C5: when audio_features is None or is_valid() is false, evaluate_all
\* returns score 70 and classification "not_analyzed" for loudness,
\* pitch_variation and stamina, calls none of the audio scorers, and returns
\* the six transcript results it returns with valid audio.
C5_NoAudioDefaults ==
    (op \in EvaluateAllOps /\ (audio_features.is_none \/ ~audio_features.valid)) =>
        /\ \A k \in AudioKeys :
            /\ result[k].score = 70
            /\ result[k].classification = "not_analyzed"
        /\ called \cap AudioScorers = {}
        /\ LET with_audio == WithValidAudio
           IN  \A k \in TranscriptKeys : result[k] = with_audio[k]

\* features were extracted, but is_valid() is false
C5_Witness ==
    /\ op = "evaluate_all"
    /\ ~audio_features.is_none
    /\ ~audio_features.valid
    /\ audio_features.loudness = GoodLoudness
    /\ words = ScenarioA
    /\ result.loudness.score = 70
    /\ result.clarity.score = 75

\* C6: with no words the clarity and pace scorers return score 0 with the
\* feedback ["No speech detected"] and the pause scorer returns score 100
\* with the feedback "Not enough speech to evaluate pauses"; the pace scorer
\* also returns score 0 with "No speech detected" when total_duration is 0
\* and there are words. Each call returns a result.
C6_NoSpeechResults ==
    /\ (op \in {"clarity", "pace"} /\ words = <<>>) =>
        /\ result.score = 0
        /\ result.feedback = <<Fb("No speech detected")>>
    /\ (op = "pause" /\ words = <<>>) =>
        /\ result.score = 100
        /\ result.feedback = <<Fb("Not enough speech to evaluate pauses")>>
    /\ (op = "pace" /\ words # <<>> /\ total_duration = 0) =>
        /\ result.score = 0
        /\ result.feedback = <<Fb("No speech detected")>>
    /\ op \in {"clarity", "pace", "pause"} => "score" \in DOMAIN result

\* words, but no duration
C6_Witness ==
    /\ op = "pace"
    /\ words # <<>>
    /\ total_duration = 0
    /\ result.score = 0

\* no words, no transcript, valid audio features
NothingSaid ==
    /\ op \in EvaluateAllOps
    /\ words = <<>>
    /\ full_text = ""
    /\ ~audio_features.is_none /\ audio_features.valid

\* C7: with no words, no transcript and valid audio features the overall
\* score is the weighted sum of the three audio scores alone, rounded to one
\* decimal place.
C7_OverallAudioOnly ==
    NothingSaid =>
        LET w == METRIC_WEIGHTS[get_detailed_age_group(student_age)]
        IN  IsRoundedToOneDecimal(result.overall,
                result.loudness.score * w.loudness +
                result.pitch_variation.score * w.pitch_variation +
                result.stamina.score * w.stamina)

\* C7, as the code has it: clarity, pace and structure score 0, but pause,
\* filler and repetition score 100 each, and the overall score is the sum of
\* 100 times their three weights and the weighted audio scores, rounded to
\* one decimal place.
C7_OverallWithNeutralScores ==
    NothingSaid =>
        LET w == METRIC_WEIGHTS[get_detailed_age_group(student_age)]
        IN  /\ result.clarity.score = 0
            /\ result.pace.score = 0
            /\ result.structure.score = 0
            /\ result.pause_management.score = 100
            /\ result.filler_reduction.score = 100
            /\ result.repetition_control.score = 100
            /\ IsRoundedToOneDecimal(result.overall,
                    100 * (w.pause + w.filler + w.repetition) +
                    result.loudness.score * w.loudness +
                    result.pitch_variation.score * w.pitch_variation +
                    result.stamina.score * w.stamina)

\* age 12, good audio: 0.10 * 100 + 0.12 * 100 + 0.12 * 100 and the audio
\* scores (0.08 each, 22.48 together) give 56.5
C7_Witness ==
    /\ NothingSaid
    /\ op = "evaluate_all"
    /\ student_age = 12
    /\ result.loudness.score = 100
    /\ result.overall = 565

\* the input a transcript scorer cannot score
TooShort ==
    \/ op \in {"clarity", "pace", "filler"} /\ words = <<>>
    \/ op = "pause" /\ Len(words) < 2
    \/ op = "repetition" /\ Len(words) < 5
    \/ op = "structure" /\ full_text = ""

\* C8: each of the six transcript scorers, given no words, fewer words than
\* it needs or no transcript, returns at least one feedback string.
C8_TooShortHasFeedback ==
    TooShort => Len(result.feedback) >= 1

\* a presentation without the fields the pre_primary tier fills with the
\* randomly chosen message
WithoutRandomMessage(payload) ==
    IF payload.age_group = "pre_primary"
    THEN [payload EXCEPT !.message.text = "", !.audio_feedback.tts_message = ""]
    ELSE payload

C10_PaceScore ==
    /\ (/\ op = "pace"
        /\ student_age \in MinStudentAge..MaxStudentAge
        /\ words # <<>> /\ total_duration > 0) =>
        LET band == AGE_GROUPS[BracketOfAge(student_age)].wpm_range
            sixty_n == 60 * Len(words)
            d == total_duration
            raw == IF band[1] * d <= sixty_n /\ sixty_n <= band[2] * d THEN 100
                   ELSE IF sixty_n < band[1] * d
                        THEN (100 * sixty_n) \div (band[1] * d)
                        ELSE (100 * band[2] * d) \div sixty_n
        IN  result.score = Max(0, Min(100, raw))
    /\ (/\ op = "pace" /\ student_age = 10
        /\ Len(words) = 10 /\ total_duration = 10) =>
        /\ result.wpm = 600
        /\ result.score = 75

\* the fillers of a word list: the words that, lower-cased and stripped of
\* punctuation, are in the filler list
FillerCount(ws) ==
    Len(SelectSeq(WordTexts(ws), LAMBDA w : w \in METRICS_CONFIG.filler_words))

\* C11: for a non-empty word list with filler ratio r = filler_count /
\* word_count and the filler tolerance t of the bracket of the age, the
\* filler score is 100 whenever r <= t (also when r = t); when r = 2 * t it
\* is max(0, 100 - 300 * t); and for r > t it is max(0, 100 - 300 * (r - t))
\* truncated to an integer.
C11_FillerScore ==
    (op = "filler" /\ words # <<>>) =>
        LET n == Len(words)
            c == FillerCount(words)
            t == AGE_GROUPS[get_detailed_age_group(student_age)].filler_tolerance
            \* n * (100 - 300 * (c / n - t / 100))
            penalised == (100 + 3 * t) * n - 300 * c
        IN  /\ 100 * c <= t * n => result.score = 100
            /\ 100 * c = 2 * t * n => result.score = Max(0, 100 - 3 * t)
            /\ 100 * c > t * n =>
                    IF penalised < 0 THEN result.score = 0
                    ELSE /\ result.score * n <= penalised
                         /\ penalised < (result.score + 1) * n

\* C12: a stamina call on a recording shorter than min_duration_for_analysis
\* (15 s) returns score 100 and classification "short_speech", at every age
\* and whatever energy segments, dropoff, consistency and classification the
\* features carry.
C12_ShortSpeechStamina ==
    /\ AUDIO_METRICS_CONFIG.stamina.min_duration_for_analysis = 15
    /\ (op = "stamina" /\ audio_features.duration_seconds < 15) =>
            /\ result.score = 100
            /\ result.classification = "short_speech"

\* a 14 s recording whose energy drops to nothing
C12_Witness ==
    /\ op = "stamina"
    /\ audio_features.duration_seconds = 14
    /\ audio_features.stamina.energy_segments # <<>>
    /\ audio_features.stamina.energy_dropoff = 0
    /\ audio_features.stamina.classification = "fading"
    /\ result.score = 100
    /\ result.classification = "short_speech"

\* ages well outside the documented 3..18, negative ones included
WideAges == (-MaxStudentAge)..(2 * MaxStudentAge)

\* C13: every component derives the same bracket from a student age, also
\* outside 3..18: the age_group of the presenter get_presenter returns,
\* get_detailed_age_group, get_age_group and BaseMetric._determine_age_group
\* are equal; get_presenter returns the pre_primary presenter up to age 5,
\* the lower_primary one for 6-8, the upper_primary one for 9-10 and the
\* detailed one from 11; and a payload carries that bracket.
C13_SameAgeGroupEverywhere ==
    /\ \A age \in WideAges \cup {student_age} :
        /\ Presenter_age_group(age) = get_detailed_age_group(age)
        /\ get_age_group(age) = get_detailed_age_group(age)
        /\ BaseMetric_determine_age_group(age) = get_detailed_age_group(age)
        /\ get_presenter(age) =
                IF age <= 5 THEN "PrePrimaryPresenter"
                ELSE IF age \in 6..8 THEN "LowerPrimaryPresenter"
                ELSE IF age \in 9..10 THEN "UpperPrimaryPresenter"
                ELSE "DetailedPresenter"
    /\ op \in {"transform_for_age", "transform_for_age_again"} =>
            result.age_group = get_detailed_age_group(student_age)

\* a payload for age 19, above the documented range, in the secondary bracket
C13_Witness ==
    /\ op = "transform_for_age"
    /\ student_age = MaxStudentAge + AgeMargin
    /\ result.age_group = "secondary"
    /\ get_presenter(student_age) = "DetailedPresenter"

\* the sum of the nine weights of a row (hundredths)
RowSum(row) == SumSeq([i \in 1..Len(MetricKeys) |-> row[MetricKeys[i]]])

\* C14: a METRIC_WEIGHTS row whose nine weights do not sum to about 1.0 is
\* rejected before evaluate_all can compute an overall score with it: an
\* evaluator whose row is such a row returns no report.
C14_UnbalancedRowRejected ==
    (/\ op = "evaluate_all_edited_weights"
     /\ RowSum(metric_weights[get_detailed_age_group(student_age)]) # 100) =>
        "overall" \notin DOMAIN result

\* the call c of the extraction env returned; the frames librosa.pyin found
\* voiced; there are enough of them for the pitch statistics (at least
\* MinVoicedFrames and 0.3 of all frames)
CallReturns(env, c) == env.raises[c] = "returns"
VoicedFrames(env) == Cardinality({i \in DOMAIN env.f0 : ~FloatIsNaN(env.f0[i])})
EnoughVoiced(env) ==
    /\ VoicedFrames(env) >= MinVoicedFrames
    /\ 100 * VoicedFrames(env) >=
           AUDIO_METRICS_CONFIG.pitch.min_voiced_ratio * Len(env.f0)

\* the file was loaded with samples in it and the loudness was extracted
LoudnessExtracted(env) ==
    /\ env.samples > 0
    /\ \A c \in {"load", "rms", "loudness_statistics", "amplitude_to_db"} :
           CallReturns(env, c)

\* an exception of one of the classes came out of librosa.load, of the
\* loudness extraction or of the stamina extraction
RaisedOutsidePitch(env, classes) ==
    \/ env.raises["load"] \in classes
    \/ /\ env.samples > 0 /\ CallReturns(env, "load")
       /\ \E c \in {"rms", "loudness_statistics", "amplitude_to_db"} :
              env.raises[c] \in classes
    \/ /\ LoudnessExtracted(env) /\ Len(env.rms) >= n_segments
       /\ env.raises["stamina_statistics"] \in classes

\* the pitch estimation failed: librosa.pyin raised, or numpy did on the
\* voiced frames
PitchFailed(env) ==
    \/ ~CallReturns(env, "pyin")
    \/ EnoughVoiced(env) /\ ~CallReturns(env, "pitch_statistics")

\* an exception of class Exception came out of a call that extract_features
\* makes outside the try statement of _extract_pitch
ExceptionRaised(env) ==
    \/ RaisedOutsidePitch(env, {"Exception"})
    \/ /\ LoudnessExtracted(env) /\ CallReturns(env, "pyin") /\ EnoughVoiced(env)
       /\ env.raises["pitch_statistics"] = "Exception"

\* a call that extract_features reached raised an exception outside class
\* Exception
PassedOn(env) ==
    \/ RaisedOutsidePitch(env, {"BaseException"})
    \/ /\ LoudnessExtracted(env)
       /\ \/ env.raises["pyin"] = "BaseException"
          \/ /\ CallReturns(env, "pyin") /\ EnoughVoiced(env)
             /\ env.raises["pitch_statistics"] = "BaseException"

\* an except clause was entered and its print call raised
PrintRaised(env) ==
    /\ env.print_raises
    /\ \/ ExceptionRaised(env)
       \/ LoudnessExtracted(env) /\ env.raises["pyin"] = "Exception"

\* the extraction env with the pitch estimation succeeding: librosa.pyin
\* returns the frames and numpy their statistics
PyinReturning(env) ==
    [env EXCEPT !.raises["pyin"] = "returns",
                !.raises["pitch_statistics"] = "returns"]

C15_Propagated ==
    /\ op = "extract_features"
    /\ extraction.raises["load"] = "BaseException"
    /\ result.raised

\* every (score, feedback) pair of the results, metric after metric in the
\* fixed order, each metric's strings in the order of its list
RECURSIVE FeedbackPool(_, _)
FeedbackPool(results, k) ==
    IF k = 0 THEN <<>>
    ELSE LET name == SuggestionMetricNames[k]
             present == name \in DOMAIN results
             score == IF present /\ "score" \in DOMAIN results[name]
                      THEN results[name].score ELSE 100
             list == IF present /\ "feedback" \in DOMAIN results[name]
                     THEN results[name].feedback ELSE <<>>
         IN  FeedbackPool(results, k - 1) \o
             [i \in 1..Len(list) |-> [score |-> score, feedback |-> list[i]]]

\* the lowest score a string comes with, and the first place in the pool
\* where it comes with that score
LowestScore(pool, f) ==
    CHOOSE v \in {pool[i].score : i \in {j \in 1..Len(pool) : pool[j].feedback = f}} :
        \A i \in 1..Len(pool) : pool[i].feedback = f => v <= pool[i].score
FirstPlace(pool, f) ==
    CHOOSE i \in 1..Len(pool) :
        /\ pool[i].feedback = f
        /\ pool[i].score = LowestScore(pool, f)
        /\ \A j \in 1..(i - 1) :
                ~(pool[j].feedback = f /\ pool[j].score = LowestScore(pool, f))

\* C16: the suggestions hold no string twice, every one is a feedback string
\* of the results, and they are ordered by the score of the metric they come
\* from, lowest first; a string of several metrics counts with its lowest
\* score, and strings of equal score keep the fixed metric order.
C16_SuggestionsRanked ==
    op = "generate_improvement_suggestions" =>
        LET pool == FeedbackPool(evaluation, Len(SuggestionMetricNames))
            n == Len(result)
        IN  /\ \A i, j \in 1..n : i # j => result[i] # result[j]
            /\ \A i \in 1..n : \E k \in 1..Len(pool) : pool[k].feedback = result[i]
            /\ \A i, j \in 1..n : i < j =>
                    \/ LowestScore(pool, result[i]) < LowestScore(pool, result[j])
                    \/ /\ LowestScore(pool, result[i]) = LowestScore(pool, result[j])
                       /\ FirstPlace(pool, result[i]) < FirstPlace(pool, result[j])

\* clarity (90) and pace (40) both say "Slow down": it stands second, at the
\* score of pace, before the string of pause_management, which ties with pace
C16_Witness ==
    /\ op = "generate_improvement_suggestions"
    /\ evaluation = HandResults(90, 40)
    /\ max_suggestions = 5
    /\ Len(result) = 5
    /\ result[1] = Fb("Fewer fillers")
    /\ result[2] = Fb("Slow down")
    /\ result[3] = Fb("Keep going")
    /\ result[5] = Fb("Speak up")

\* C17: generate_improvement_suggestions returns at most max_suggestions
\* strings, for every results and every max_suggestions >= 0, 0 included.
C17_AtMostMaxSuggestions ==
    op = "generate_improvement_suggestions" => Len(result) <= max_suggestions

\* C18: no suggestion holds "not available" or "not analyzed", in any mix
\* of upper and lower case, whatever feedback the nine metric results carry.
C18_NoNonActionableSuggestion ==
    op = "generate_improvement_suggestions" =>
        \A i \in 1..Len(result) :
            /\ ~Contains(Lower(result[i].text), "not available")
            /\ ~Contains(Lower(result[i].text), "not analyzed")

\* the voice strength label the claim states for a loudness score
VoiceStrengthOf(loudness) ==
    IF loudness >= 70 THEN "lion"
    ELSE IF loudness < 40 THEN "mouse"
    ELSE "just_right"

\* C19: in the pre_primary presentation, for every loudness score,
\* voice_detected is true exactly when loudness > 20, voice_strength is
\* "lion" from 70, "mouse" below 40 and "just_right" between, and badge is
\* null or one badge of the pre_primary badge table.
C19_PrePrimaryVoice ==
    /\ \A loudness \in 0..100 :
        LET payload == PrePrimaryPresenter_payload(loudness, 0, None, "")
        IN  /\ payload.voice_detected = (loudness > 20)
            /\ payload.voice_strength = VoiceStrengthOf(loudness)
    /\ (/\ op \in {"transform_for_age", "transform_for_age_again"}
        /\ get_presenter(student_age) = "PrePrimaryPresenter") =>
            LET loudness == BasePresenter_get_score(evaluation, "loudness")
            IN  /\ result.age_group = "pre_primary"
                /\ result.voice_detected = (loudness > 20)
                /\ result.voice_strength = VoiceStrengthOf(loudness)
                /\ \/ result.badge = None
                   \/ \E i \in 1..Len(BADGES.pre_primary) :
                        LET badge == BADGES.pre_primary[i]
                        IN  result.badge =
                                [id |-> badge.id, name |-> badge.name,
                                 emoji |-> badge.emoji, animation |-> badge.animation]

\* a loudness score of exactly 70: a lion, a detected voice and the
\* strong_voice badge
C19_Witness ==
    /\ op = "transform_for_age"
    /\ get_presenter(student_age) = "PrePrimaryPresenter"
    /\ BasePresenter_get_score(evaluation, "loudness") = 70
    /\ result.voice_detected
    /\ result.voice_strength = "lion"
    /\ result.badge # None
    /\ result.badge.id = "strong_voice"

\* the tip of the upper_primary presenter when every score is good
PraiseTip ==
    [text |-> "Amazing work! You're doing great - keep it up!",
     target_metric |-> "confidence"]

\* the names of the raw report's scores in the presenter's order, and the
\* key of the presenter's tip table for each
ReportMetricOrder ==
    <<"loudness", "clarity", "pitch_variation", "pace", "stamina",
      "filler_reduction", "structure", "pause_management", "repetition_control">>
TipKey(metric) == IF metric = "filler_reduction" THEN "filler" ELSE metric
TipFor(metric) ==
    Get(tip_map, TipKey(metric),
        [text |-> "Let's work on improving your " \o
                  ReplaceUnderscores(TipKey(metric)) \o "!",
         target_metric |-> TipKey(metric)])

\* C20: in the upper_primary presentation the improvement tip addresses the
\* metric with the minimum score among all metric scores of the raw report
\* other than "overall" (ties by the presenter's metric order); the praise
\* tip is returned when that minimum is >= 80, and never when any metric of
\* the report scores below 80.
C20_TipForGlobalMinimum ==
    (/\ op \in {"transform_for_age", "transform_for_age_again"}
     /\ get_presenter(student_age) = "UpperPrimaryPresenter"
     /\ "scores" \in DOMAIN evaluation) =>
        LET report == evaluation.scores
            metrics == SelectSeq(ReportMetricOrder,
                                 LAMBDA m : m \in DOMAIN report)
            lowest == CHOOSE i \in 1..Len(metrics) :
                        /\ \A j \in 1..Len(metrics) :
                                report[metrics[i]] <= report[metrics[j]]
                        /\ \A j \in 1..(i - 1) :
                                report[metrics[j]] > report[metrics[i]]
        IN  /\ (DOMAIN report) \ {"overall"} \subseteq
                    {ReportMetricOrder[i] : i \in 1..Len(ReportMetricOrder)}
            /\ IF report[metrics[lowest]] >= 80
               THEN result.improvement_tip = PraiseTip
               ELSE result.improvement_tip = TipFor(metrics[lowest])
            /\ (\E m \in (DOMAIN report) \ {"overall"} : report[m] < 80)
                    => result.improvement_tip # PraiseTip

\* the condition each badge declares, read off the BADGES table by hand:
\* scores in points, the overall score in tenths, the duration in hundredths
\* of a second, a score that was not supplied counting as 0
DeclaredCondition(id, scores, duration) ==
    LET S(k) == Get(scores, k, 0)
    IN  IF id = "strong_voice" THEN S("loudness") >= 70
        ELSE IF id = "brave_speaker"
        THEN S("loudness") > 30 /\ duration >= 10 * 100
        ELSE IF id = "happy_talker" THEN S("pitch_variation") >= 60
        ELSE IF id = "confident_speaker"
        THEN S("loudness") >= 70 /\ S("pace") >= 60
        ELSE IF id = "clear_voice" THEN S("clarity") >= 70
        ELSE IF id = "perfect_pace" THEN S("pace") >= 80
        ELSE IF id = "expressive_star" THEN S("pitch_variation") >= 75
        ELSE IF id = "all_rounder"
        THEN \A k \in DOMAIN scores :
                scores[k] >= (IF k = "overall" THEN 70 * 10 ELSE 70)
        ELSE IF id = "expression_star" THEN S("pitch_variation") >= 80
        ELSE IF id = "confidence_champion" THEN S("loudness") >= 85
        ELSE IF id = "endurance_master" THEN S("stamina") >= 80
        ELSE IF id = "smooth_speaker" THEN S("filler") >= 90
        ELSE IF id = "professional_speaker" THEN S("overall") >= 80 * 10
        ELSE IF id = "structure_master" THEN S("structure") >= 85
        ELSE IF id = "orator" THEN S("overall") >= 85 * 10
        ELSE FALSE

\* the badges of a tier whose declared condition is true, in the order of
\* the table, as get_badges_for_scores reports a badge
DeclaredBadges(scores, tier, duration) ==
    LET table == IF tier \in DOMAIN BADGES THEN BADGES[tier] ELSE <<>>
        earned == SelectSeq(table,
                    LAMBDA b : DeclaredCondition(b.id, scores, duration))
    IN  [i \in 1..Len(earned) |->
            [id |-> earned[i].id, name |-> earned[i].name,
             emoji |-> earned[i].emoji, animation |-> earned[i].animation]]

\* the scores the pre_primary and the lower_primary presenter hand over
ShownScores(presenter, raw) ==
    IF presenter = "PrePrimaryPresenter"
    THEN [loudness |-> BasePresenter_get_score(raw, "loudness"),
          pitch_variation |-> BasePresenter_get_score(raw, "pitch_variation")]
    ELSE [loudness |-> BasePresenter_get_score(raw, "loudness"),
          pace |-> BasePresenter_get_score(raw, "pace"),
          pitch_variation |-> BasePresenter_get_score(raw, "pitch_variation"),
          clarity |-> BasePresenter_get_score(raw, "clarity")]

\* C21: for every age tier, scores and duration, get_badges_for_scores
\* returns exactly the badges of the tier's table whose declared condition
\* is true, in declaration order; the one badge the pre_primary and the
\* lower_primary presenter show is the first of them, or null when none
\* matches.
C21_BadgesAsDeclared ==
    /\ op = "get_badges_for_scores" =>
        result = DeclaredBadges(badge_call.scores, badge_call.age_group,
                                badge_call.duration)
    /\ (/\ op \in {"transform_for_age", "transform_for_age_again"}
        /\ get_presenter(student_age) \in
                {"PrePrimaryPresenter", "LowerPrimaryPresenter"}) =>
        LET presenter == get_presenter(student_age)
            tier == IF presenter = "PrePrimaryPresenter"
                    THEN "pre_primary" ELSE "lower_primary"
            badges == DeclaredBadges(ShownScores(presenter, evaluation), tier,
                                     BasePresenter_get_duration(evaluation))
        IN  result.badge = IF badges = <<>> THEN None ELSE badges[1]

\* upper_primary scores that earn all_rounder and three more badges, in
\* the order of the table
C21_Witness ==
    /\ op = "get_badges_for_scores"
    /\ badge_call.age_group = "upper_primary"
    /\ DOMAIN badge_call.scores = BadgeScoreKeys
    /\ Len(result) = 4
    /\ result[1].id = "all_rounder"
    /\ result[2].id = "expression_star"
    /\ result[3].id = "confidence_champion"
    /\ result[4].id = "endurance_master"

\* a pre_primary presentation whose loudness earns nothing and whose badge
\* is the second of the table
C21_WitnessShown ==
    /\ op = "transform_for_age"
    /\ get_presenter(student_age) = "PrePrimaryPresenter"
    /\ result.badge # None
    /\ result.badge.id = "brave_speaker"

\* the silences start[i+1] - end[i] of a word list that are longer than limit
GapsLongerThan(ws, limit) ==
    Cardinality({i \in 1..(Len(ws) - 1) : ws[i + 1].start - ws[i].end > limit})

\* C22: for a word list of at least 2 words, with L gaps longer than 2 s, E
\* gaps longer than 4 s, ratio = L / word_count and the pause tolerance t of
\* the bracket of the age, the pause score is max(0, base - 10 * E), where
\* base is 100 if ratio <= t and else the integer part of
\* 100 - 200 * (ratio - t) floored at 0; and excessive_pauses <= long_pauses
\* <= total_pauses <= word_count - 1.
C22_PauseScore ==
    (op = "pause" /\ Len(words) >= 2) =>
        LET n == Len(words)
            L == GapsLongerThan(words, 2)
            E == GapsLongerThan(words, 4)
            t == AGE_GROUPS[get_detailed_age_group(student_age)].pause_tolerance
            \* n * (100 - 200 * (L / n - t / 100))
            penalised == (100 + 2 * t) * n - 200 * L
            base == IF 100 * L <= t * n THEN 100
                    ELSE IF penalised < 0 THEN 0
                    ELSE penalised \div n
        IN  /\ result.score = Max(0, base - 10 * E)
            /\ result.long_pauses = L
            /\ result.excessive_pauses = E
            /\ result.excessive_pauses <= result.long_pauses
            /\ result.long_pauses <= result.total_pauses
            /\ result.total_pauses <= n - 1

\* C of the claim: the positions where two consecutive normalised tokens are
\* identical and at least 3 characters long
ConsecutiveRepeats(ws) ==
    LET tokens == WordTexts(ws)
    IN  Cardinality({i \in 1..(Len(ws) - 1) :
            tokens[i] = tokens[i + 1] /\ Len(tokens[i]) >= 3})

\* P of the claim: the distinct 3-word phrases that occur at least 3 times
RepeatedPhrases(ws) ==
    LET tokens == WordTexts(ws)
        At(i) == <<tokens[i], tokens[i + 1], tokens[i + 2]>>
        starts == 1..(Len(ws) - 2)
    IN  Cardinality({At(i) : i \in {j \in starts :
            Cardinality({k \in starts : At(k) = At(j)}) >= 3}})

\* max(0, 100 - penalty) as an integer, the penalty 5 * C + 10 * P halved for
\* the two youngest brackets
RepetitionScoreOf(age, ws) ==
    LET penalty == 5 * ConsecutiveRepeats(ws) + 10 * RepeatedPhrases(ws)
    IN  IF BaseMetric_determine_age_group(age) \in {"pre_primary", "lower_primary"}
        THEN Max(0, (200 - penalty) \div 2)
        ELSE Max(0, 100 - penalty)

\* C23 as stated: for every word list of any length the repetition score is
\* max(0, 100 - (5 * C + 10 * P)), the penalty halved for the pre_primary and
\* lower_primary brackets.
C23_RepetitionScoreAnyLength ==
    op = "repetition" => result.score = RepetitionScoreOf(student_age, words)

\* C23 amended: the stated score holds for word lists of at least 5 words
\* (the halved result truncated to an integer); a list of fewer than 5 words
\* scores 100 with consecutive_repeats 0, whatever it repeats.
C23_RepetitionScore ==
    op = "repetition" =>
        IF Len(words) >= 5
        THEN /\ result.score = RepetitionScoreOf(student_age, words)
             /\ result.consecutive_repeats = ConsecutiveRepeats(words)
        ELSE /\ result.score = 100
             /\ result.consecutive_repeats = 0

\* the same word MaxCycleLen times at age 7: every position a repeat, one
\* repeated phrase, half of the penalty taken off
C23_Witness ==
    /\ op = "repetition"
    /\ student_age = 7
    /\ Len(words) = MaxCycleLen
    /\ ConsecutiveRepeats(words) = MaxCycleLen - 1
    /\ RepeatedPhrases(words) = 1
    /\ result.score = (200 - (5 * (MaxCycleLen - 1) + 10)) \div 2

\* four times the same word: three repeats, and still a score of 100
C23_WitnessShort ==
    /\ op = "repetition"
    /\ Len(words) = 4
    /\ ConsecutiveRepeats(words) = 3
    /\ result.score = 100

\* the sum of the confidences of a word list, in hundredths
ConfidenceSum(ws) == SumSeq([i \in 1..Len(ws) |-> ws[i].confidence])

\* C24: for a non-empty word list with confidences in [0, 1] the clarity
\* score is the mean confidence times 100 rounded to the nearest integer and
\* clamped to 0..100.
C24_ClarityRounded ==
    (op = "clarity" /\ words # <<>>) =>
        LET n == Len(words)
            total == ConfidenceSum(words)
            \* twice the distance of the score from total / n, times n
            off == IF result.score * n >= total
                   THEN 2 * (result.score * n - total)
                   ELSE 2 * (total - result.score * n)
        IN  /\ result.score \in 0..100
            /\ off <= n

\* the positions of the words below the low-confidence threshold
LowPositions(ws) ==
    {i \in 1..Len(ws) : ws[i].confidence < METRICS_CONFIG.low_confidence_threshold}

\* C25: the clarity scorer reports at most 5 low_confidence_words, each below
\* the low-confidence threshold (0.6), and they are the lowest ones: no word
\* below the threshold that was left out has a lower confidence than a
\* reported word; low_confidence_count is the number of all words below the
\* threshold.
C25_LowestWordsReported ==
    (op = "clarity" /\ words # <<>>) =>
        LET reported == result.low_confidence_words
            left_out == {i \in LowPositions(words) :
                            \A j \in 1..Len(reported) :
                                reported[j].timestamp # words[i].start}
        IN  /\ Len(reported) <= 5
            /\ \A j \in 1..Len(reported) : reported[j].confidence < 60
            /\ result.low_confidence_count = Cardinality(LowPositions(words))
            /\ \A i \in left_out : \A j \in 1..Len(reported) :
                    words[i].confidence >= reported[j].confidence

\* the loudness score at the age of the call for audio of db dB
LoudnessScoreAt(db) ==
    LoudnessMetric_evaluate(student_age,
        AudioFeatures(LoudnessFeatures(500, 0, db, 4, <<>>, ExtractedLoudnessClass(db)),
                      UnvoicedPitch, NoStamina, 30, TRUE)).score

\* C26: for audio with non-zero rms_mean the loudness score is 100 for every
\* rms_db_mean inside the optimal range [-25, -12] dB, and at each side of
\* the range the score never increases as rms_db_mean moves farther from
\* it, across the too_soft (-30 dB) and too_loud (-8 dB) breakpoints as well.
C26_LoudnessMonotone ==
    (op = "loudness" /\ audio_features.loudness.rms_mean # 0) =>
        LET db == audio_features.loudness.rms_db_mean
        IN  /\ (-25 <= db /\ db <= -12) => result.score = 100
            /\ \A farther \in (-MaxQuietDb)..MaxLoudDb :
                    (\/ farther <= db /\ db <= -25
                     \/ farther >= db /\ db >= -12)
                        => LoudnessScoreAt(farther) <= result.score

\* the classification processors/audio_features.py gives a pitch deviation
\* (lines 196-204)
ExtractedPitchClass(pitch_std) ==
    IF pitch_std < AUDIO_METRICS_CONFIG.pitch.monotone_std_threshold THEN "monotone"
    ELSE IF pitch_std > AUDIO_METRICS_CONFIG.pitch.erratic_std_threshold THEN "erratic"
    ELSE "expressive"

\* C27: for pitch features classified by the extractor's rule (monotone iff
\* pitch_std < 15, erratic iff pitch_std > 100, else expressive) with
\* voiced_ratio >= 0.1, in every bracket but pre_primary, the pitch variation
\* score lies in 40..70 for monotone, 50..80 for erratic and 70..100 for
\* expressive; for insufficient_data it is exactly 50, or 70 for pre_primary.
C27_PitchScoreBands ==
    op = "pitch_variation" =>
        LET pitch == audio_features.pitch
            pre_primary == BaseMetric_determine_age_group(student_age) = "pre_primary"
        IN  IF pitch.classification = "insufficient_data"
            THEN result.score = IF pre_primary THEN 70 ELSE 50
            ELSE (/\ pitch.classification = ExtractedPitchClass(pitch.pitch_std)
                  /\ pitch.voiced_ratio >= 10
                  /\ ~pre_primary) =>
                    IF pitch.pitch_std < 15 THEN result.score \in 40..70
                    ELSE IF pitch.pitch_std > 100 THEN result.score \in 50..80
                    ELSE result.score \in 70..100

\* an erratic voice far above the threshold at age 10: the penalty stops at
\* 30 and the score is 50
C27_Witness ==
    /\ op = "pitch_variation"
    /\ student_age = 10
    /\ audio_features.pitch.classification = "erratic"
    /\ audio_features.pitch.pitch_std >= 200
    /\ audio_features.pitch.voiced_ratio >= 10
    /\ result.score = 50


----------------------------------------------------------------------------
\* the order of the statuses a job goes through when nothing fails
StatusFlow == <<"pending", "preprocessing", "extracting_features",
                "transcribing", "analyzing", "completed">>

\* the statuses a job never leaves
TerminalStatuses == {"completed", "failed"}

\* status b is the one after status a in the flow
NextInFlow(a, b) ==
    \E i \in 1..(Len(StatusFlow) - 1) : StatusFlow[i] = a /\ StatusFlow[i + 1] = b

\* C28: in every step of the server, whatever the interleaving of tasks and
\* polls, no job disappears; a job's status either stays, or moves to the
\* next status of pending -> preprocessing -> extracting_features ->
\* transcribing -> analyzing -> completed, or moves to failed from a status
\* that is not terminal; the record of a completed or failed job does not
\* change; and a record that changes is the record of the job whose task
\* took the step.
C28_StatusOnlyForward ==
    [][ \A job_id \in DOMAIN jobs :
          /\ job_id \in DOMAIN jobs'
          /\ \/ jobs'[job_id].status = jobs[job_id].status
             \/ NextInFlow(jobs[job_id].status, jobs'[job_id].status)
             \/ /\ jobs'[job_id].status = "failed"
                /\ jobs[job_id].status \notin TerminalStatuses
          /\ jobs[job_id].status \in TerminalStatuses
                => jobs'[job_id] = jobs[job_id]
          /\ jobs'[job_id] # jobs[job_id] => writer' = job_id ]_vars

\* C28 witness: with every job slot used, one job has completed and another
\* has failed, both tasks have ended, and the last step was a poll that
\* reported a terminal status.
C28_Witness ==
    /\ Len(jobs) = MaxJobs
    /\ \E j, k \in DOMAIN jobs :
        /\ jobs[j].status = "completed"
        /\ jobs[k].status = "failed"
        /\ jobs[k].error = Str("Transcription failed")
    /\ \A j \in DOMAIN tasks : tasks[j].pc = "done"
    /\ response # None
    /\ response.status_code = 200
    /\ response.status \in TerminalStatuses


----------------------------------------------------------------------------
\* the stamina score of a recording before the age adjustment: the
\* thresholds do not depend on the age, and the secondary bracket has no
\* adjustment
StaminaBeforeAdjustment(af) == StaminaMetric_evaluate(MaxStudentAge, af).score

\* the pitch variation score of a recording before the age adjustment
PitchBeforeAdjustment(af) == PitchVariationMetric_evaluate(MaxStudentAge, af).score

\* recordings of the length of af with other analysed stamina features
OtherStamina(af) ==
    {AudioFeatures(af.loudness, af.pitch, st, af.duration_seconds, TRUE) :
        st \in StaminaInputs \ {NoStamina}}

\* recordings like af with other pitch features, classified as the
\* extractor classifies them
OtherPitch(af) ==
    {AudioFeatures(af.loudness, p, af.stamina, af.duration_seconds, TRUE) :
        p \in {q \in PitchInputs : /\ q.voiced_ratio >= 10
                                   /\ q.classification = ExtractedPitchClass(q.pitch_std)}}

\* C29: the age adjustments keep the order of the scores.  Whenever the
\* stamina scorer has scored an analysed recording, every recording whose
\* score before the adjustment is at least that of the scored one gets, at
\* the same age, a final score that is at least the returned one; the same
\* for the pitch variation scorer.
C29_AdjustmentKeepsOrder ==
    /\ (/\ op = "stamina"
        /\ result.classification \notin {"short_speech", "not_analyzed"})
        => \A other \in OtherStamina(audio_features) :
              StaminaBeforeAdjustment(audio_features) <= StaminaBeforeAdjustment(other)
                  => result.score <= StaminaMetric_evaluate(student_age, other).score
    /\ (/\ op = "pitch_variation"
        /\ audio_features.pitch.voiced_ratio >= 10
        /\ audio_features.pitch.classification =
              ExtractedPitchClass(audio_features.pitch.pitch_std))
        => \A other \in OtherPitch(audio_features) :
              PitchBeforeAdjustment(audio_features) <= PitchBeforeAdjustment(other)
                  => result.score <= PitchVariationMetric_evaluate(student_age, other).score


----------------------------------------------------------------------------
\* C30: in every pre_primary presentation in which voice_detected is false
\* the badge is null, the background is not "stars" and the sound effect is
\* not "celebration_fanfare".
C30_NoBadgeWithoutVoice ==
    (/\ op \in {"transform_for_age", "transform_for_age_again"}
     /\ get_presenter(student_age) = "PrePrimaryPresenter"
     /\ ~result.voice_detected)
        => /\ result.badge = None
           /\ result.visuals.background_theme # "stars"
           /\ result.audio_feedback.sound_effect # "celebration_fanfare"

====
